---- MODULE Spec2Model ----
(***************************************************************************)
(* A model of the rosdistro commit walker of ros_metrics                   *)
(* (src/ros_metrics/rosdistro.py) and of the part of the MetricDB wrapper  *)
(* (src/ros_metrics/metric_db.py) it writes through.                       *)
(*                                                                         *)
(* The store is the sqlite connection's view of the tables.  Every write   *)
(* of a walk happens in one implicit transaction that MetricDB.close()     *)
(* commits (metric_db.py:90), and update_rosdistro reaches close() in its  *)
(* finally clause (rosdistro.py:637-642), so the store persisted by a walk *)
(* is the value of db when the walk returns to pc = "idle".                *)
(***************************************************************************)
EXTENDS Integers, Sequences, FiniteSets, Bags, TLC

VARIABLES
    commits,  \* the traversal list(reversed(list(repo.iter_commits())))
    net,      \* what the remote side answers to a release-URL resolution
    db,       \* the tables of the rosdistro store
    w,        \* the locals of the running update_rosdistro / check_tags
    walks,    \* number of calls made so far
    prev      \* how the previous walk ended: [complete, flags, twice]

vars == <<commits, net, db, w, walks, prev>>

----------------------------------------------------------------------------
(* Bounds of the model *)

MaxCommits == 2
MaxWalks == 3

(* Program constants *)

CountStride == 100
TagStride == 1000
WindowStart == 1512524340
WindowEnd == 1547075230

NULL == "NULL"

(* data/constants.yaml is read by constants.py; two first-generation and   *)
(* one second-generation channel stand for the lists.                      *)
ros1_distros == {"kinetic"}
ros2_distros == {"ardent", "bouncy"}
distros == ros1_distros \cup ros2_distros

(* The order in which a tree's folders are visited (git sorts tree entries *)
(* by name), which is the insertion order of the snapshot's distro keys.   *)
DistroOrder == <<"ardent", "bouncy", "kinetic">>

----------------------------------------------------------------------------
(* Helpers on sets and sequences *)

Min(S) == CHOOSE x \in S : \A y \in S : x <= y

Range(s) == {s[i] : i \in DOMAIN s}

FilterSeq(s, S) == SelectSeq(s, LAMBDA x : x \in S)

----------------------------------------------------------------------------
(* MetricDB: tables without a primary key are bags of rows, tables with an  *)
(* `id` primary key are sets of rows.                                       *)

\* MetricDB.insert on a table without primary key
Insert(table, row_dict) == table (+) SetToBag({row_dict})

\* MetricDB.insert on a table with primary key
InsertKeyed(table, row_dict) == table \cup {row_dict}

\* MetricDB.lookup_all(field, table)
lookup_all(field, table) == {r[field] : r \in BagToSet(table)}

\* the UPDATE ... SET of MetricDB.update: every column of row_dict except
\* the key is set, the other columns keep their value
SetColumns(r, row_dict, replace_key) ==
    [c \in DOMAIN r |->
        IF c \in DOMAIN row_dict /\ c # replace_key THEN row_dict[c] ELSE r[c]]

\* a row of a table with columns cols that an INSERT of row_dict creates
NewRow(cols, row_dict) ==
    [c \in cols |-> IF c \in DOMAIN row_dict THEN row_dict[c] ELSE NULL]

\* MetricDB.update(table, row_dict, replace_key) on a keyed table
Update(table, cols, row_dict, replace_key) ==
    LET clause(r) == r[replace_key] = row_dict[replace_key]
        inserted == IF Cardinality({r \in table : clause(r)}) = 0
                    THEN InsertKeyed(table, NewRow(cols, row_dict))
                    ELSE table
    IN  {IF clause(r) THEN SetColumns(r, row_dict, replace_key) ELSE r :
            r \in inserted}

\* MetricDB.get_next_id(table)
RECURSIVE NextIdFrom(_, _)
NextIdFrom(all_ids, next_id) ==
    IF next_id \in all_ids THEN NextIdFrom(all_ids, next_id + 1) ELSE next_id

get_next_id(table) == NextIdFrom({r.id : r \in table}, 0)

CommitCols == {"id", "hash", "date", "author", "email"}

EmptyDB ==
    [commits |-> {}, changes |-> EmptyBag, repo_count |-> EmptyBag,
     repos |-> {}, release_url_map |-> EmptyBag, tags |-> {},
     tags_checked |-> EmptyBag]

----------------------------------------------------------------------------
(* classify_commit.  A commit object is a record                            *)
(*   [hexsha, authored_date, author, parents, files, tree]                  *)
(* where author is [name, email], parents is the sequence of parent         *)
(* objects [hexsha, author, parents (hexshas), files], and files is what    *)
(* parents[0].diff(commit) holds: one record per changed file,              *)
(*   [yields, raises],                                                      *)
(* the items classify_modification yields for the file (a triple, or None   *)
(* for "unknown") and the exception that ends the generator, if any.        *)

NoneItem == [kind |-> "none"]

Triple(verb, noun, detail) ==
    [kind |-> "triple", verb |-> verb, noun |-> noun, detail |-> detail]

\* the loop over one file's yields (rosdistro.py:402-409)
RECURSIVE ClassifyYields(_, _, _)
ClassifyYields(yields, commit_id, acc) ==
    IF yields = <<>> THEN acc
    ELSE LET ret == Head(yields)
             next == IF ret = NoneItem
                       THEN [acc EXCEPT !.all_valid = FALSE]
                     ELSE IF ret \notin acc.seen
                       THEN [acc EXCEPT
                               !.seen = @ \cup {ret},
                               !.entries = Append(@,
                                   [commit_id |-> commit_id,
                                    change_index |-> Len(acc.entries),
                                    verb |-> ret.verb, noun |-> ret.noun,
                                    detail |-> ret.detail])]
                     ELSE acc
         IN  ClassifyYields(Tail(yields), commit_id, next)

\* fault: a file that does not parse voids the commit like any other error
ClassifyFileVoids(file, commit_id, acc) ==
    LET done == ClassifyYields(file.yields, commit_id, acc)
    IN  IF file.raises # "no" THEN [done EXCEPT !.all_valid = FALSE] ELSE done

\* one iteration of `for diff in parent.diff(commit)` (rosdistro.py:400-415)
ClassifyFile(file, commit_id, acc) ==
    LET done == ClassifyYields(file.yields, commit_id, acc)
    IN  IF file.raises = "yaml"
          THEN [done EXCEPT !.entries = Append(@,
                   [commit_id |-> commit_id, change_index |-> Len(done.entries),
                    verb |-> NULL, noun |-> "error", detail |-> NULL])]
        ELSE IF file.raises = "other"
          THEN [done EXCEPT !.all_valid = FALSE]
        ELSE done

RECURSIVE ClassifyFiles(_, _, _)
ClassifyFiles(files, commit_id, acc) ==
    IF files = <<>> THEN acc
    ELSE ClassifyFiles(Tail(files), commit_id,
                       ClassifyFile(Head(files), commit_id, acc))

\* fault: the entries are returned although a file was unknown
ClassifyDiffKeepsEntries(commit_dict, files, commit_id) ==
    [commit_dict |-> commit_dict, valid |-> TRUE,
     entries |-> ClassifyFiles(files, commit_id,
                   [all_valid |-> TRUE, seen |-> {}, entries |-> <<>>]).entries]

\* rosdistro.py:395-420: the diff of the effective commit against its first
\* parent; valid = FALSE stands for the returned None
ClassifyDiff(commit_dict, files, commit_id) ==
    LET r == ClassifyFiles(files, commit_id,
                           [all_valid |-> TRUE, seen |-> {}, entries |-> <<>>])
    IN  IF r.all_valid
          THEN [commit_dict |-> commit_dict, valid |-> TRUE, entries |-> r.entries]
          ELSE [commit_dict |-> commit_dict, valid |-> FALSE, entries |-> <<>>]

NoClassification(commit_dict) ==
    [commit_dict |-> commit_dict, valid |-> FALSE, entries |-> <<>>]

\* fault: the merge is recorded as an update
MergeAsUpdate(commit_id) ==
    [commit_id |-> commit_id, change_index |-> 0, verb |-> "update",
     noun |-> NULL, detail |-> NULL]

\* rosdistro.py:375: merge_commit
MergeEntry(commit_id) ==
    [commit_id |-> commit_id, change_index |-> 0, verb |-> "merge",
     noun |-> NULL, detail |-> NULL]

\* fault: the merge keeps its own author
KeepMerger(commit_dict, parent) == commit_dict

\* rosdistro.py:386-388: the author of the commit used instead of the merge
Substitute(commit_dict, parent) ==
    [commit_dict EXCEPT !.author = parent.author.name,
                        !.email = parent.author.email]

\* rosdistro.py:363-420
classify_commit(main_path, commit, commit_id) ==
    LET commit_dict == [hash |-> commit.hexsha, date |-> commit.authored_date,
                        id |-> commit_id, author |-> commit.author.name,
                        email |-> commit.author.email]
        unseen_parents == SelectSeq(commit.parents,
                                    LAMBDA x : x.hexsha \notin main_path)
    IN  IF Len(commit.parents) = 0 THEN NoClassification(commit_dict)
        ELSE IF Len(commit.parents) > 1 THEN
            IF Len(unseen_parents) = 0
              THEN [commit_dict |-> commit_dict, valid |-> TRUE,
                    entries |-> <<MergeEntry(commit_id)>>]
            ELSE IF Len(unseen_parents) = 1
              THEN LET parent == unseen_parents[1]
                   IN  IF Len(parent.parents) = 1
                            /\ parent.parents[1] \in main_path
                         THEN ClassifyDiff(Substitute(commit_dict, parent),
                                           parent.files, commit_id)
                         ELSE NoClassification(commit_dict)
            ELSE NoClassification(commit_dict)
        ELSE ClassifyDiff(commit_dict, commit.files, commit_id)

----------------------------------------------------------------------------
(* commit_to_rosdistro.  A tree is a function from the distribution names   *)
(* to [present, repositories]: whether the distro's folder (or legacy file) *)
(* exists, and the entries its manifests list, merged per repository name.  *)
(* An entry is [name, source_url, release_url, release_version,             *)
(* source_version]; an absent part is NULL.  A release version is           *)
(* [core, build]: the text before the first '-' and whether one follows.    *)

\* folders of the tree named after a distro (rosdistro.py:618-621)
PresentDistros(tree) == {d \in distros : tree[d].present}

\* rosdistro.py:32-127: a distro becomes a key of the snapshot only when an
\* entry is stored under it (lines 51-61, 74-81, 125)
commit_to_rosdistro(tree) ==
    LET keys == {d \in distros : tree[d].present /\ tree[d].repositories # <<>>}
    IN  [order |-> FilterSeq(DistroOrder, keys),
         dict |-> [d \in keys |-> tree[d].repositories]]

EntryNames(distro_dict) == {distro_dict[i].name : i \in DOMAIN distro_dict}

----------------------------------------------------------------------------
(* count_repos (rosdistro.py:423-433), one store statement at a time        *)

\* line 424
CountDelete(repo_count, commit_id) ==
    LET keep == {r \in BagToSet(repo_count) : r.commit_id # commit_id}
    IN  [r \in keep |-> repo_count[r]]

\* line 429
CountRow(commit_id, distro, distro_dict) ==
    [commit_id |-> commit_id, distro |-> distro,
     count |-> Cardinality(EntryNames(distro_dict))]

\* fault: the `all` row is written for any snapshot with a repository
WritesAllAlways(all_names, repositories) == all_names # {}

\* line 432: whether the `all` row is written
WritesAll(all_names, repositories) ==
    all_names # {} /\ (DOMAIN repositories.dict) \cap ros1_distros # {}

\* line 433
AllRow(commit_id, all_names) ==
    [commit_id |-> commit_id, distro |-> "all", count |-> Cardinality(all_names)]

----------------------------------------------------------------------------
(* load_repository_info and the resolution of an entry's source URL         *)

U_a == "https://github.com/ros/a"
U_a_git == "https://github.com/ROS/a.git"
U_b == "https://github.com/ros/b"
U_x == "https://example.org/x"
R_a == "https://github.com/ros-gbp/a-release.git"
R_b == "https://github.com/ros-gbp/b-release.git"
U_a_dotgit == "https://github.com/ros/a.git"
U_ros2_a == "https://github.com/ros2/a"

NoMatch == [matched |-> FALSE]

\* repo_utils.py:28-34 on the URLs above: GITHUB_HTTP_PATTERN drops a .git
\* suffix and the captures are lower-cased; U_x matches no pattern
match_git_host(url) ==
    IF url \in {U_a, U_a_git, U_a_dotgit}
      THEN [matched |-> TRUE, server |-> "github.com", org |-> "ros", repo |-> "a"]
    ELSE IF url = U_b
      THEN [matched |-> TRUE, server |-> "github.com", org |-> "ros", repo |-> "b"]
    ELSE IF url = R_a
      THEN [matched |-> TRUE, server |-> "github.com", org |-> "ros-gbp",
            repo |-> "a-release"]
    ELSE IF url = R_b
      THEN [matched |-> TRUE, server |-> "github.com", org |-> "ros-gbp",
            repo |-> "b-release"]
    ELSE IF url = U_ros2_a
      THEN [matched |-> TRUE, server |-> "github.com", org |-> "ros2", repo |-> "a"]
    ELSE NoMatch

\* rosdistro.py:436-441: the id of the first repos row with these fields
RepoRows(repos, repo_dict) ==
    {r \in repos : r.server = repo_dict.server /\ r.org = repo_dict.org
                   /\ r.repo = repo_dict.repo}

\* rosdistro.py:450-474.  netw[release_url] is what the remote side does
\* now: "timeout" (resolve raises ConnectTimeout, line 454), "missing"
\* (the clone raises CloneException, line 460), "notracks" (lines 464, 471),
\* "error" (see RaisesTypeError), or the vcs_uri of the tracks descriptor.
get_source_url_from_release_repo(netw, release_url) ==
    IF netw[release_url] \in {"timeout", "missing", "notracks"} THEN NULL
    ELSE netw[release_url]

\* a request error that is no ConnectTimeout: resolve prints it and returns
\* None (repo_utils.py:99-101); clone_or_update(None, update=False) takes
\* match_git_host(None), which is None, and get_cache_folder(None)
\* subscripts it (repo_utils.py:56-58, 38): a TypeError, which the
\* `except CloneException` of rosdistro.py:460 does not catch
RaisesTypeError(netw, release_url) == netw[release_url] = "error"

\* rosdistro.py:477-492: [url, map, asked, raised], the value returned, the
\* release_url_map table afterwards, whether the release repository was
\* asked for over the network (line 491) and whether that call raised.
\* The path that resolves over the network stores the result and falls
\* off the end of the function.
resolve_source_url(map, netw, entry, distro) ==
    IF entry.source_url # NULL
    THEN [url |-> entry.source_url, map |-> map, asked |-> FALSE,
          raised |-> FALSE]
    ELSE LET stored == {r \in BagToSet(map) :
                            r.release_url = entry.release_url /\ r.distro = distro}
         IN  IF stored # {}
               THEN [url |-> (CHOOSE r \in stored : TRUE).src_url, map |-> map,
                     asked |-> FALSE, raised |-> FALSE]
             ELSE IF RaisesTypeError(netw, entry.release_url)
               THEN [url |-> NULL, map |-> map, asked |-> TRUE, raised |-> TRUE]
               ELSE [url |-> NULL,
                     map |-> Insert(map,
                        [release_url |-> entry.release_url,
                         src_url |-> get_source_url_from_release_repo(
                                         netw, entry.release_url),
                         distro |-> distro]),
                     asked |-> TRUE, raised |-> FALSE]

NoVersion == [present |-> FALSE]

\* rosdistro.py:517-526
EntryInfo(entry, url) ==
    IF entry.release_version.present
      THEN [url |-> url, is_release |-> "True",
            version |-> entry.release_version.core]
      ELSE [url |-> url, is_release |-> "False",
            version |-> entry.source_version]

\* f with key k bound to v
Put(f, k, v) == [x \in (DOMAIN f) \cup {k} |-> IF x = k THEN v ELSE f[x]]

\* rosdistro.py:498-528: acc is [repos_table, map, repos, asked, raised];
\* asked holds the release URLs resolve_source_url went to the network
\* for, and the loop ends where that call raises
RECURSIVE LoadEntries(_, _, _, _)
LoadEntries(entries, netw, distro, acc) ==
    IF entries = <<>> \/ acc.raised THEN acc
    ELSE LET entry == Head(entries)
             rs == resolve_source_url(acc.map, netw, entry, distro)
             seen == [acc EXCEPT !.raised = rs.raised,
                                 !.asked = IF rs.asked THEN @ \cup {entry.release_url}
                                           ELSE @]
             repo_dict == IF rs.url = NULL THEN NoMatch ELSE match_git_host(rs.url)
             found == IF repo_dict.matched
                        THEN RepoRows(acc.repos_table, repo_dict) ELSE {}
             repo_id == IF found # {} THEN Min({r.id : r \in found})
                        ELSE get_next_id(acc.repos_table)
             table == IF repo_dict.matched /\ found = {}
                        THEN InsertKeyed(acc.repos_table,
                               [id |-> repo_id, server |-> repo_dict.server,
                                org |-> repo_dict.org, repo |-> repo_dict.repo,
                                url |-> rs.url, status |-> NULL])
                        ELSE acc.repos_table
             next == IF repo_dict.matched
                       THEN [seen EXCEPT !.repos_table = table, !.map = rs.map,
                                         !.repos = Put(acc.repos, repo_id,
                                                       EntryInfo(entry, rs.url))]
                       ELSE [seen EXCEPT !.map = rs.map]
         IN  LoadEntries(Tail(entries), netw, distro, next)

load_repository_info(dbx, netw, distro, distro_dict) ==
    LoadEntries(distro_dict, netw, distro,
                [repos_table |-> dbx.repos, map |-> dbx.release_url_map,
                 repos |-> <<>>, asked |-> {}, raised |-> FALSE])

----------------------------------------------------------------------------
(* check_tags (rosdistro.py:532-577)                                        *)

TagCols == {"id", "repo_id", "distro", "tag", "is_release", "date"}

\* lines 538-540: per repo_id the rows that hold max(date) among the rows
\* of the distro dated <= timestamp; sqlite takes the bare columns from
\* any one of them
LatestRows(tags, distro, timestamp, repo_id) ==
    LET rows == {r \in tags : r.distro = distro /\ r.repo_id = repo_id
                              /\ r.date <= timestamp}
    IN  {r \in rows : \A q \in rows : q.date <= r.date}

PreviousIds(tags, distro, timestamp) ==
    {r.repo_id : r \in {q \in tags : q.distro = distro /\ q.date <= timestamp}}

\* lines 541-543: the previous_dict values the query can give
PreviousDicts(tags, distro, timestamp) ==
    LET ids == PreviousIds(tags, distro, timestamp)
    IN  {[id \in ids |-> [tag |-> f[id].tag, is_release |-> f[id].is_release]] :
            f \in {g \in [ids -> tags] :
                      \A id \in ids : g[id] \in LatestRows(tags, distro, timestamp, id)}}

\* lines 562-563: the rows that hold min(date) among the later rows
AfterRows(tags, distro, timestamp, repo_id) ==
    LET rows == {r \in tags : r.distro = distro /\ r.repo_id = repo_id
                              /\ r.date > timestamp}
    IN  {r \in rows : \A q \in rows : r.date <= q.date}

\* fault: a missing version is not replaced by 'default' (lines 550-551)
CurrentValueAsIs(entry, repo_id) ==
    IF repo_id \in DOMAIN entry
      THEN [tag |-> entry[repo_id].version,
            is_release |-> entry[repo_id].is_release]
      ELSE [tag |-> NULL, is_release |-> NULL]

\* lines 547-554: the (version, is_release) of repo_id in this snapshot
CurrentValue(entry, repo_id) ==
    IF repo_id \in DOMAIN entry
      THEN [tag |-> IF entry[repo_id].is_release = "False"
                         /\ entry[repo_id].version = NULL
                      THEN "default" ELSE entry[repo_id].version,
            is_release |-> entry[repo_id].is_release]
      ELSE [tag |-> NULL, is_release |-> NULL]

\* lines 570-573
RECURSIVE FreeTagId(_, _)
FreeTagId(all_tag_ids, tag_id) ==
    IF tag_id \in all_tag_ids THEN FreeTagId(all_tag_ids, tag_id + 1) ELSE tag_id

NewTagId(all_tag_ids) == FreeTagId(all_tag_ids, Cardinality(all_tag_ids))

----------------------------------------------------------------------------
(* update_rosdistro (rosdistro.py:580-642), one store statement per step    *)

AllFlags == [classify |-> TRUE, count |-> TRUE, tags |-> TRUE]

NoFlags == [classify |-> FALSE, count |-> FALSE, tags |-> FALSE]

Flags == [classify : BOOLEAN, count : BOOLEAN, tags : BOOLEAN]

EmptySnapshot == [order |-> <<>>, dict |-> <<>>]

\* no call is running
Idle ==
    [pc |-> "idle", caller |-> "none", flags |-> NoFlags, i |-> 0,
     main_path |-> {}, already_classified |-> {}, already_counted |-> {},
     already_tagged |-> {}, classified |-> {}, pending |-> <<>>,
     tag_this |-> FALSE, repositories |-> EmptySnapshot, todo |-> <<>>,
     all_names |-> {}, all_tag_ids |-> {}, commit_id |-> 0, timestamp |-> 0,
     entry |-> <<>>, previous_dict |-> <<>>, ids |-> {}, asked |-> {}]

\* the commit the loop is at (commit_id = w.i)
Current == commits[w.i + 1]

\* fault: the done sets are not read from the store
NothingDone(dbx) == {}

\* line 592
AlreadyClassified(dbx) == lookup_all("commit_id", dbx.changes)

\* line 593
AlreadyCounted(dbx) == lookup_all("commit_id", dbx.repo_count)

\* line 594
AlreadyTagged(dbx) == lookup_all("commit_id", dbx.tags_checked)

\* lines 582-594: the clone is updated (history is what the traversal of the
\* updated clone returns), the store is opened and the done sets are read
StartWalk(flags, history) ==
    /\ w.pc = "idle"
    /\ walks < MaxWalks
    /\ walks' = walks + 1
    /\ commits' = history
    /\ w' = [Idle EXCEPT
                !.pc = "loop", !.caller = "walk", !.flags = flags,
                !.already_classified = AlreadyClassified(db),
                !.already_counted = AlreadyCounted(db),
                !.already_tagged = AlreadyTagged(db)]
    /\ UNCHANGED <<net, db, prev>>

\* lines 597-608 up to db.update('commits', commit_dict)
Classify ==
    /\ w.pc = "loop"
    /\ w.i < Len(commits)
    /\ w.i \notin w.already_classified /\ w.flags.classify
    /\ LET main_path == w.main_path \cup {Current.hexsha}
           c == classify_commit(main_path, Current, w.i)
           classifications == IF c.valid THEN c.entries ELSE <<>>
       IN  /\ db' = [db EXCEPT !.commits =
                        Update(@, CommitCols, c.commit_dict, "id")]
           /\ w' = [w EXCEPT !.main_path = main_path,
                             !.classified = @ \cup {w.i},
                             !.pending = classifications,
                             !.pc = IF classifications # <<>>
                                      THEN "changes" ELSE "sample"]
    /\ UNCHANGED <<commits, net, walks, prev>>

\* lines 597-602, 609-610: the commit is not classified in this walk
SkipClassify ==
    /\ w.pc = "loop"
    /\ w.i < Len(commits)
    /\ ~(w.i \notin w.already_classified /\ w.flags.classify)
    /\ w' = [w EXCEPT !.main_path = @ \cup {Current.hexsha}, !.pc = "sample"]
    /\ UNCHANGED <<commits, net, db, walks, prev>>

\* lines 607-608: one db.insert('changes', classification)
InsertChange ==
    /\ w.pc = "changes"
    /\ db' = [db EXCEPT !.changes = Insert(@, Head(w.pending))]
    /\ w' = [w EXCEPT !.pending = Tail(@),
                      !.pc = IF Tail(w.pending) = <<>> THEN "sample" ELSE "changes"]
    /\ UNCHANGED <<commits, net, walks, prev>>

\* the loop moves to the next commit
NextCommit(ww) ==
    [ww EXCEPT !.pc = "loop", !.i = @ + 1, !.pending = <<>>, !.tag_this = FALSE,
               !.repositories = EmptySnapshot, !.todo = <<>>, !.all_names = {},
               !.all_tag_ids = {}, !.commit_id = 0, !.timestamp = 0,
               !.entry = <<>>, !.previous_dict = <<>>, !.ids = {}, !.asked = {}]

\* a call made outside a walk returns to its caller
Return(ww) == IF ww.caller = "walk" THEN NextCommit(ww) ELSE Idle

\* line 533 and the head of the loop of line 535
EnterTags(ww, tags, commit_id, repositories, timestamp) ==
    [ww EXCEPT !.pc = "tags_distro", !.repositories = repositories,
               !.todo = repositories.order, !.all_names = {},
               !.all_tag_ids = {r.id : r \in tags},
               !.commit_id = commit_id, !.timestamp = timestamp]

\* lines 612-613
CountThisCommit ==
    LET by_stride == w.flags.count /\ w.i \notin w.already_counted
                     /\ w.i % CountStride = 0
        present_distros == PresentDistros(Current.tree)
    IN  IF w.flags.count /\ Current.authored_date >= WindowStart
            /\ Current.authored_date < WindowEnd
            /\ present_distros # {} /\ present_distros \ ros2_distros = {}
          THEN w.i \notin w.already_counted
          ELSE by_stride

TagThisCommit ==
    w.flags.tags /\ w.i \notin w.already_tagged /\ w.i % TagStride = 0

\* lines 612-627: which checkpoints this commit takes
Sample ==
    /\ w.pc = "sample"
    /\ LET repositories == commit_to_rosdistro(Current.tree)
       IN  w' = IF CountThisCommit
                  THEN [w EXCEPT !.pc = "count_delete",
                                 !.tag_this = TagThisCommit,
                                 !.repositories = repositories]
                ELSE IF TagThisCommit
                  THEN EnterTags(w, db.tags, w.i, repositories,
                                 Current.authored_date)
                ELSE NextCommit(w)
    /\ UNCHANGED <<commits, net, db, walks, prev>>

\* line 424
CountDeleteStep ==
    /\ w.pc = "count_delete"
    /\ db' = [db EXCEPT !.repo_count = CountDelete(@, w.i)]
    /\ w' = [w EXCEPT !.pc = "count_distro", !.todo = w.repositories.order,
                      !.all_names = {}]
    /\ UNCHANGED <<commits, net, walks, prev>>

\* lines 426-429: one iteration
CountDistroStep ==
    /\ w.pc = "count_distro"
    /\ w.todo # <<>>
    /\ LET distro == Head(w.todo)
           distro_dict == w.repositories.dict[distro]
       IN  /\ db' = [db EXCEPT !.repo_count =
                        Insert(@, CountRow(w.i, distro, distro_dict))]
           /\ w' = [w EXCEPT !.todo = Tail(@),
                             !.all_names = @ \cup EntryNames(distro_dict)]
    /\ UNCHANGED <<commits, net, walks, prev>>

\* lines 431-433, and the return to the walk (lines 632-633)
CountAllStep ==
    /\ w.pc = "count_distro"
    /\ w.todo = <<>>
    /\ db' = [db EXCEPT !.repo_count =
                 IF WritesAll(w.all_names, w.repositories)
                   THEN Insert(@, AllRow(w.i, w.all_names)) ELSE @]
    /\ w' = IF w.tag_this
              THEN EnterTags(w, db.tags, w.i, w.repositories,
                             Current.authored_date)
              ELSE Return(w)
    /\ UNCHANGED <<commits, net, walks, prev>>

\* lines 535-545: the head of one iteration over the distros
TagsDistroStep ==
    /\ w.pc = "tags_distro"
    /\ w.todo # <<>>
    /\ LET distro == Head(w.todo)
           loaded == load_repository_info(db, net, distro,
                                          w.repositories.dict[distro])
           asked == w.asked \cup {<<u, distro>> : u \in loaded.asked}
       IN  /\ ~loaded.raised
           /\ db' = [db EXCEPT !.repos = loaded.repos_table,
                               !.release_url_map = loaded.map]
           /\ \E previous_dict \in PreviousDicts(db.tags, distro, w.timestamp) :
                LET all_ids == (DOMAIN previous_dict) \cup (DOMAIN loaded.repos)
                IN  w' = IF all_ids = {}
                           THEN [w EXCEPT !.todo = Tail(@), !.asked = asked]
                           ELSE [w EXCEPT !.pc = "tags_repo",
                                          !.entry = loaded.repos,
                                          !.previous_dict = previous_dict,
                                          !.ids = all_ids, !.asked = asked]
    /\ UNCHANGED <<commits, net, walks, prev>>

\* line 536 where load_repository_info raises: the rows written for the
\* entries before stay, and the exception leaves check_tags
TagsDistroRaise ==
    /\ w.pc = "tags_distro"
    /\ w.todo # <<>>
    /\ LET distro == Head(w.todo)
           loaded == load_repository_info(db, net, distro,
                                          w.repositories.dict[distro])
       IN  /\ loaded.raised
           /\ db' = [db EXCEPT !.repos = loaded.repos_table,
                               !.release_url_map = loaded.map]
    /\ w' = [Idle EXCEPT !.caller = "TypeError"]
    /\ UNCHANGED <<commits, net, walks, prev>>

\* the locals after one iteration of the loop of line 546
AfterRepo(ww) ==
    IF ww.ids = {}
      THEN [ww EXCEPT !.pc = "tags_distro", !.todo = Tail(@), !.entry = <<>>,
                      !.previous_dict = <<>>]
      ELSE ww

\* fault: the earliest later row is never taken to hold the value
NeverSameAsAfter(a_d, cur) == FALSE

\* whether the earliest later row a_d holds the value (line 566)
SameAsAfter(a_d, cur) == a_d.tag = cur.tag /\ a_d.is_release = cur.is_release

\* lines 546-576: one iteration over all_ids
TagsRepoStep ==
    /\ w.pc = "tags_repo"
    /\ LET repo_id == Min(w.ids)
           distro == Head(w.todo)
           cur == CurrentValue(w.entry, repo_id)
           unchanged == /\ repo_id \in DOMAIN w.previous_dict
                        /\ cur = w.previous_dict[repo_id]
           after == AfterRows(db.tags, distro, w.timestamp, repo_id)
           tag_id == NewTagId(w.all_tag_ids)
           d == [repo_id |-> repo_id, distro |-> distro, tag |-> cur.tag,
                 is_release |-> cur.is_release, date |-> w.timestamp,
                 id |-> tag_id]
           rest == [w EXCEPT !.ids = @ \ {repo_id}]
       IN  \/ /\ unchanged
              /\ db' = db
              /\ w' = AfterRepo(rest)
           \/ /\ ~unchanged
              /\ \E a_d \in after :
                    /\ SameAsAfter(a_d, cur)
                    /\ db' = [db EXCEPT !.tags =
                                 Update(@, TagCols,
                                        [id |-> a_d.id, date |-> w.timestamp],
                                        "id")]
              /\ w' = AfterRepo(rest)
           \/ /\ ~unchanged
              /\ after = {} \/ \E a_d \in after : ~SameAsAfter(a_d, cur)
              /\ db' = [db EXCEPT !.tags = InsertKeyed(@, d)]
              /\ w' = AfterRepo([rest EXCEPT !.all_tag_ids = @ \cup {tag_id}])
    /\ UNCHANGED <<commits, net, walks, prev>>

\* line 577, and the return to the caller
TagsDoneStep ==
    /\ w.pc = "tags_distro"
    /\ w.todo = <<>>
    /\ db' = [db EXCEPT !.tags_checked =
                 Insert(@, [commit_id |-> w.commit_id])]
    /\ w' = Return(w)
    /\ UNCHANGED <<commits, net, walks, prev>>

\* the loop of line 596 is exhausted: lines 637-642
Finish ==
    /\ w.pc = "loop"
    /\ w.i = Len(commits)
    /\ w' = Idle
    /\ prev' = [complete |-> TRUE, flags |-> w.flags,
                twice |-> prev.complete /\ prev.flags = w.flags]
    /\ UNCHANGED <<commits, net, db, walks>>

\* lines 635-642: KeyboardInterrupt is raised wherever the walk is, the
\* handler passes and the finally clause closes (commits) the store
KeyboardInterrupt ==
    /\ w.caller = "walk"
    /\ w' = Idle
    /\ prev' = [complete |-> FALSE, flags |-> w.flags, twice |-> FALSE]
    /\ UNCHANGED <<commits, net, db, walks>>

WalkStep ==
    \/ Classify
    \/ SkipClassify
    \/ InsertChange
    \/ Sample
    \/ CountDeleteStep
    \/ CountDistroStep
    \/ CountAllStep
    \/ TagsDistroStep
    \/ TagsRepoStep
    \/ TagsDoneStep
    \/ Finish

----------------------------------------------------------------------------
(* Histories the walks of Spec run over                                     *)

HashNames == <<"c0", "c1", "c2", "c3", "c4", "c5">>

Alice == [name |-> "alice", email |-> "alice@example.org"]

Bob == [name |-> "bob", email |-> "bob@example.org"]

T1 == Triple("add", "package", "kinetic")

T2 == Triple("bump", "patch", "kinetic")

File(yields, raises) == [yields |-> yields, raises |-> raises]

\* diffs: one file; two files that share a triple; a file that is unknown
\* after a valid triple; a file that does not parse; a file whose
\* classification raises after a triple; an empty diff
Diffs ==
    {<<File(<<T1>>, "no")>>,
     <<File(<<T1, T2>>, "no"), File(<<T1>>, "no")>>,
     <<File(<<T1>>, "no"), File(<<T2, NoneItem>>, "no")>>,
     <<File(<<>>, "yaml"), File(<<T1>>, "no")>>,
     <<File(<<T1>>, "other")>>,
     <<>>}

Entry(name, source_url, release_url, release_version, source_version) ==
    [name |-> name, source_url |-> source_url, release_url |-> release_url,
     release_version |-> release_version, source_version |-> source_version]

Version(core, build) == [present |-> TRUE, core |-> core, build |-> build]

Absent == [present |-> FALSE, repositories |-> <<>>]

Folder(entries) == [present |-> TRUE, repositories |-> entries]

E_a == Entry("a", U_a, R_a, Version("1.0.0", "0"), NULL)

E_b == Entry("b", U_b, NULL, NoVersion, "master")

TreeEmpty == [d \in distros |-> Absent]

TreeRos1 == [TreeEmpty EXCEPT !["kinetic"] = Folder(<<E_a>>)]

TreeRos2 == [TreeEmpty EXCEPT !["ardent"] = Folder(<<E_a>>)]

TreeMixed == [TreeEmpty EXCEPT !["kinetic"] = Folder(<<E_a, E_b>>),
                               !["ardent"] = Folder(<<E_a>>)]

DateBefore == WindowStart - 1

DateIn == WindowStart

DateAfter == WindowEnd

ParentOf(c) ==
    [hexsha |-> c.hexsha, author |-> c.author,
     parents |-> [k \in DOMAIN c.parents |-> c.parents[k].hexsha],
     files |-> c.files]

RootCommit(tree) ==
    [hexsha |-> HashNames[1], authored_date |-> DateBefore, author |-> Alice,
     parents |-> <<>>, files |-> <<>>, tree |-> tree]

\* a commit with the single parent `parent`
Child(hexsha, parent, date, files, tree) ==
    [hexsha |-> hexsha, authored_date |-> date, author |-> Bob,
     parents |-> <<ParentOf(parent)>>, files |-> files, tree |-> tree]

\* the linear histories that extend h by one commit
Extend(h) ==
    {Append(h, Child(HashNames[Len(h) + 1], h[Len(h)], snap[1], files, snap[2])) :
        files \in Diffs,
        snap \in {<<DateIn, TreeRos2>>, <<DateAfter, TreeMixed>>}}

RECURSIVE HistoriesOfLen(_)
HistoriesOfLen(n) ==
    IF n = 1 THEN {<<RootCommit(tree)>> : tree \in {TreeEmpty, TreeRos1, TreeMixed}}
    ELSE UNION {Extend(h) : h \in HistoriesOfLen(n - 1)}

WalkHistories == UNION {HistoriesOfLen(n) : n \in 1..MaxCommits}

NoNet == [u \in {R_a, R_b} |-> "missing"]

NoPrev == [complete |-> FALSE, flags |-> NoFlags, twice |-> FALSE]

Init ==
    /\ commits \in WalkHistories
    /\ net = NoNet
    /\ db = EmptyDB
    /\ w = Idle
    /\ walks = 0
    /\ prev = NoPrev

Next ==
    \/ \E flags \in Flags : StartWalk(flags, commits)
    \/ WalkStep
    \/ KeyboardInterrupt

Spec == Init /\ [][Next]_vars

----------------------------------------------------------------------------
(* Walks that only classify, over histories with merges.  The traversal     *)
(* lists a parent after its merge when the parent was also reached through  *)
(* another child and carries the later commit date.                         *)

ClassifyOnly == [classify |-> TRUE, count |-> FALSE, tags |-> FALSE]

Commit(hexsha, author, date, parents, files) ==
    [hexsha |-> hexsha, authored_date |-> date, author |-> author,
     parents |-> [k \in DOMAIN parents |-> ParentOf(parents[k])],
     files |-> files, tree |-> TreeEmpty]

\* what the branch that is merged changes
BranchDiffs ==
    {<<File(<<T1>>, "no")>>,
     <<File(<<T1>>, "no"), File(<<NoneItem>>, "no")>>}

M_root == RootCommit(TreeEmpty)

M_a == Commit("c1", Bob, DateBefore, <<M_root>>, <<File(<<T2>>, "no")>>)

\* the branch commit, by another author than the merge
M_u(files) == Commit("c3", Alice, DateIn, <<M_root>>, files)

\* the merge of the branch into M_a; its own diff against M_a is T2
M_m(files) ==
    Commit("c2", Bob, DateAfter, <<M_a, M_u(files)>>, <<File(<<T2>>, "no")>>)

M_d(files) == Commit("c4", Bob, DateIn, <<M_u(files)>>, <<File(<<T2>>, "no")>>)

M_h(files) ==
    Commit("c5", Bob, DateAfter, <<M_m(files), M_d(files)>>, <<>>)

\* the branch commit is listed after its merge
WeirdMerge(files) ==
    <<M_root, M_a, M_m(files), M_u(files), M_d(files), M_h(files)>>

\* the branch commit is listed before its merge
VisibleMerge(files) ==
    <<M_root, M_a, M_u(files), M_m(files), M_d(files), M_h(files)>>

\* the branch has two commits, both listed after the merge
M_v == Commit("c1", Alice, DateIn, <<M_root>>, <<File(<<T2>>, "no")>>)

M_u2(files) == Commit("c3", Alice, DateIn, <<M_v>>, files)

M_m2(files) ==
    Commit("c2", Bob, DateAfter, <<M_root, M_u2(files)>>, <<File(<<T2>>, "no")>>)

M_d2(files) == Commit("c4", Bob, DateIn, <<M_u2(files)>>, <<File(<<T2>>, "no")>>)

M_h2(files) ==
    Commit("c5", Bob, DateAfter, <<M_m2(files), M_d2(files)>>, <<>>)

DeepBranchMerge(files) ==
    <<M_root, M_m2(files), M_v, M_u2(files), M_d2(files), M_h2(files)>>

\* both parents of the merge are listed after it
M_m3(files) ==
    Commit("c2", Bob, DateAfter, <<M_v, M_u(files)>>, <<File(<<T2>>, "no")>>)

M_d3(files) == Commit("c4", Bob, DateIn, <<M_v, M_u(files)>>, <<>>)

M_h3(files) ==
    Commit("c5", Bob, DateAfter, <<M_m3(files), M_d3(files)>>, <<>>)

TwoUnseenMerge(files) ==
    <<M_root, M_m3(files), M_v, M_u(files), M_d3(files), M_h3(files)>>

MergeHistories ==
    UNION {{WeirdMerge(files), VisibleMerge(files), DeepBranchMerge(files),
            TwoUnseenMerge(files)} : files \in BranchDiffs}

InitMerge ==
    /\ commits \in MergeHistories
    /\ net = NoNet
    /\ db = EmptyDB
    /\ w = Idle
    /\ walks = 0
    /\ prev = NoPrev

NextMerge ==
    \/ StartWalk(ClassifyOnly, commits)
    \/ Classify
    \/ SkipClassify
    \/ InsertChange
    \/ Sample
    \/ Finish
    \/ KeyboardInterrupt

SpecMerge == InitMerge /\ [][NextMerge]_vars

----------------------------------------------------------------------------
(* Walks over a history that grows between them.  authored_date is the     *)
(* author's timestamp and is not what orders the traversal.                 *)

MaxHistory == 4

AuthorDates == {DateBefore, DateIn}

GrowDiffs ==
    {<<File(<<T1>>, "no")>>,
     <<File(<<T1>>, "no"), File(<<NoneItem>>, "no")>>}

SeedHistories ==
    {<<[RootCommit(TreeEmpty) EXCEPT !.authored_date = d0]>> : d0 \in AuthorDates}
    \cup
    {<<[RootCommit(TreeEmpty) EXCEPT !.authored_date = d0],
       Child("c1", RootCommit(TreeEmpty), d1, files, TreeEmpty)>> :
        d0 \in AuthorDates, d1 \in AuthorDates, files \in GrowDiffs}

\* a commit on top of the last one
Appended(h) ==
    IF Len(h) + 1 > MaxHistory THEN {}
    ELSE {Append(h, Child(HashNames[Len(h) + 1], h[Len(h)], d, files, TreeEmpty)) :
            d \in AuthorDates, files \in GrowDiffs}

\* a branch commit made on h[k - 1] and merged into the last commit: the
\* traversal lists it at place k, by its commit date, and the merge last
BranchMerged(h) ==
    IF Len(h) + 2 > MaxHistory THEN {}
    ELSE {LET side == Child(HashNames[Len(h) + 1], h[k - 1], d, files, TreeEmpty)
              merge == Commit(HashNames[Len(h) + 2], Bob, d,
                              <<h[Len(h)], side>>, files)
          IN  SubSeq(h, 1, k - 1) \o <<side>> \o SubSeq(h, k, Len(h))
                  \o <<merge>> :
            k \in 2..Len(h), d \in AuthorDates, files \in GrowDiffs}

\* what the traversal can return after a pull: every commit of h is in it
Pulled(h) == {h} \cup Appended(h) \cup BranchMerged(h)

InitHistory ==
    /\ commits \in SeedHistories
    /\ net = NoNet
    /\ db = EmptyDB
    /\ w = Idle
    /\ walks = 0
    /\ prev = NoPrev

NextHistory ==
    \/ \E history \in Pulled(commits) : StartWalk(ClassifyOnly, history)
    \/ Classify
    \/ SkipClassify
    \/ InsertChange
    \/ Sample
    \/ Finish
    \/ KeyboardInterrupt

SpecHistory == InitHistory /\ [][NextHistory]_vars

----------------------------------------------------------------------------
(* count_repos called on its own                                            *)

FolderChoices ==
    {Absent, Folder(<<>>), Folder(<<E_a>>), Folder(<<E_b>>), Folder(<<E_a, E_b>>)}

CountTrees == [distros -> FolderChoices]

\* count_repos(db, commit_id, commit_to_rosdistro(commit)) (lines 629-631)
CallCountRepos(commit_id, tree) ==
    /\ w.pc = "idle"
    /\ walks < MaxWalks
    /\ walks' = walks + 1
    /\ w' = [Idle EXCEPT !.pc = "count_delete", !.caller = "count_repos",
                         !.i = commit_id,
                         !.repositories = commit_to_rosdistro(tree)]
    /\ UNCHANGED <<commits, net, db, prev>>

InitCount ==
    /\ commits = <<RootCommit(TreeEmpty)>>
    /\ net = NoNet
    /\ db = EmptyDB
    /\ w = Idle
    /\ walks = 0
    /\ prev = NoPrev

NextCount ==
    \/ \E commit_id \in {0, CountStride}, tree \in CountTrees :
           CallCountRepos(commit_id, tree)
    \/ CountDeleteStep
    \/ CountDistroStep
    \/ CountAllStep

SpecCount == InitCount /\ [][NextCount]_vars

----------------------------------------------------------------------------
(* check_tags called on its own, at any timestamps                          *)

MaxChecks == 4

E_a2 == Entry("a", U_a_git, R_a, Version("2.0.0", "1"), NULL)

TagTrees ==
    {TreeRos1,
     [TreeEmpty EXCEPT !["kinetic"] = Folder(<<E_a2>>)],
     [TreeEmpty EXCEPT !["kinetic"] = Folder(<<E_b>>)]}

Timestamps == {DateBefore, DateIn, DateAfter}

\* check_tags(db, commit_id, commit_to_rosdistro(commit), timestamp)
\* (lines 629, 633)
CallCheckTags(commit_id, tree, timestamp) ==
    /\ w.pc = "idle"
    /\ walks < MaxChecks
    /\ walks' = walks + 1
    /\ w' = EnterTags([Idle EXCEPT !.caller = "check_tags"], db.tags,
                      commit_id, commit_to_rosdistro(tree), timestamp)
    /\ UNCHANGED <<commits, net, db, prev>>

InitTags ==
    /\ commits = <<RootCommit(TreeEmpty)>>
    /\ net = NoNet
    /\ db = EmptyDB
    /\ w = Idle
    /\ walks = 0
    /\ prev = NoPrev

NextTags ==
    \/ \E tree \in TagTrees, timestamp \in Timestamps :
           CallCheckTags(walks * TagStride, tree, timestamp)
    \/ TagsDistroStep
    \/ TagsRepoStep
    \/ TagsDoneStep

SpecTags == InitTags /\ [][NextTags]_vars

----------------------------------------------------------------------------
(* What the claims speak of                                                 *)

Ids == 0..(Len(commits) - 1)

\* main_path when the loop is at commit_id (line 597)
MainPathAt(commit_id) == {commits[k].hexsha : k \in 1..(commit_id + 1)}

\* the rows of a bag table that belong to commit_id
RowsOf(table, commit_id) ==
    LET rows == {r \in BagToSet(table) : r.commit_id = commit_id}
    IN  [r \in rows |-> table[r]]

\* what classify_commit returns for commit_id
Classification(commit_id) ==
    classify_commit(MainPathAt(commit_id), commits[commit_id + 1], commit_id)

\* the change set of commit_id: the rows one uninterrupted classification
\* of it inserts
CompleteChangeSet(commit_id) ==
    SetToBag(Range(Classification(commit_id).entries))

\* the four tables of the idempotence claim
Tables(dbx) == <<dbx.commits, dbx.changes, dbx.repo_count, dbx.tags>>

\* C1: in the store a walk leaves behind when it returns (also when it was
\* cancelled by KeyboardInterrupt), every commit has either none of its
\* Change rows or its complete change set.
C1_AllOrNothing ==
    w.pc = "idle" =>
        \A i \in Ids : \/ RowsOf(db.changes, i) = EmptyBag
                       \/ RowsOf(db.changes, i) = CompleteChangeSet(i)

\* C2: a run that follows a completed run with the same flags over the same
\* history changes none of the Commit, Change, RepoCount and Tag tables, at
\* any of its steps; so the tables after it are those after the first run.
C2_SecondRunChangesNothing ==
    [][(w.caller = "walk" /\ prev.complete /\ prev.flags = w.flags)
          => Tables(db') = Tables(db)]_vars

\* two completed full runs in a row, over a history that fills every table
C2_Witness ==
    /\ w.pc = "idle" /\ prev.twice /\ prev.flags = AllFlags
    /\ db.changes # EmptyBag /\ db.repo_count # EmptyBag /\ db.tags # {}
    /\ Cardinality(db.commits) > 1

\* The tables one uninterrupted walk with the three concerns enabled leaves
\* when it starts from an empty store.

\* every commit is classified once (lines 602-604)
FullWalkCommits == {Classification(i).commit_dict : i \in Ids}

\* lines 612, 617-624 with nothing counted yet
FullWalkCounts(commit_id) ==
    LET commit == commits[commit_id + 1]
        present_distros == PresentDistros(commit.tree)
        in_window == /\ commit.authored_date >= WindowStart
                     /\ commit.authored_date < WindowEnd
                     /\ present_distros # {}
                     /\ present_distros \ ros2_distros = {}
    IN  in_window \/ commit_id % CountStride = 0

\* lines 426-433 in one piece
FullWalkRepoCount(commit_id) ==
    LET repositories == commit_to_rosdistro(commits[commit_id + 1].tree)
        keys == DOMAIN repositories.dict
        all_names == UNION {EntryNames(repositories.dict[d]) : d \in keys}
        rows == {CountRow(commit_id, d, repositories.dict[d]) : d \in keys}
    IN  IF ~FullWalkCounts(commit_id) THEN EmptyBag
        ELSE SetToBag(rows \cup
                 IF WritesAll(all_names, repositories)
                   THEN {AllRow(commit_id, all_names)} ELSE {})

FullWalkTagged == {i \in Ids : i % TagStride = 0}

SameAsFullWalk ==
    /\ db.commits = FullWalkCommits
    /\ \A i \in Ids : /\ RowsOf(db.changes, i) = CompleteChangeSet(i)
                      /\ RowsOf(db.repo_count, i) = FullWalkRepoCount(i)
    /\ lookup_all("commit_id", db.changes) \subseteq Ids
    /\ lookup_all("commit_id", db.repo_count) \subseteq Ids
    /\ lookup_all("commit_id", db.tags_checked) = FullWalkTagged

\* the reference is what the walk does: the first walk of a store, run with
\* the three concerns to its end, leaves exactly these tables
FullWalkIsReference ==
    (w.pc = "idle" /\ walks = 1 /\ prev.complete /\ prev.flags = AllFlags)
        => SameAsFullWalk

\* C3: when a complete walk with the three concerns enabled returns, after
\* any earlier walks (cancelled, or with only some concerns), the Commit,
\* Change and RepoCount tables and the set of tag-checked ids are those of
\* one uninterrupted full walk over the same history.
C3_ResumeEqualsFullWalk ==
    (w.pc = "idle" /\ prev.complete /\ prev.flags = AllFlags) => SameAsFullWalk

\* a file of the diff is reported as unknown (classify_modification yields
\* None for it)
HasUnknownFile(files) == \E k \in DOMAIN files : NoneItem \in Range(files[k].yields)

\* no file is unknown and no classification fails
FullyClassifiable(files) ==
    \A k \in DOMAIN files : /\ NoneItem \notin Range(files[k].yields)
                            /\ files[k].raises # "other"

HasCommitRow(commit_id) ==
    \E r \in db.commits : r.id = commit_id /\ r.hash = commits[commit_id + 1].hexsha

\* the walk has classified commit_id and is past its Change inserts
ClassifiedNow(commit_id) ==
    commit_id \in w.classified /\ (w.i > commit_id \/ w.pc = "sample")

\* C4: a single-parent commit whose diff has a file reported as unknown
\* never has a Change row, whatever valid triples the diff also produced,
\* and has its Commit row as soon as the walk has classified it.
C4_UnknownFileNoChanges ==
    \A i \in Ids :
        (Len(commits[i + 1].parents) = 1 /\ HasUnknownFile(commits[i + 1].files))
            => /\ RowsOf(db.changes, i) = EmptyBag
               /\ (i \in w.classified => HasCommitRow(i))

\* the walk has classified a commit whose diff has valid triples and an
\* unknown file: its Commit row is stored, no Change row is
C4_Witness ==
    /\ Len(commits) > 1
    /\ HasUnknownFile(commits[2].files)
    /\ \E k \in DOMAIN commits[2].files : T1 \in Range(commits[2].files[k].yields)
    /\ ClassifiedNow(1)
    /\ HasCommitRow(1)
    /\ RowsOf(db.changes, 1) = EmptyBag

\* a walk with classification enabled classifies every commit it passes
\* that has no Change row
C5_Reclassified ==
    (/\ w.pc = "loop" /\ w.i < Len(commits) /\ w.flags.classify
     /\ w'.pc # "idle"
     /\ RowsOf(db.changes, w.i) = EmptyBag)
        => w.i \in w'.classified

\* a commit that has a Change row is not classified by the step, and every
\* Change row stays as it is
C5_RowsKept ==
    /\ \A i \in Ids : RowsOf(db.changes, i) # EmptyBag
                          => (i \in w'.classified => i \in w.classified)
    /\ \A r \in BagToSet(db.changes) :
           r \in BagToSet(db'.changes) /\ db'.changes[r] >= db.changes[r]

\* the commit just classified has Change rows when its diff is fully
\* classifiable
C5_ReceivesRows ==
    (/\ w.pc = "sample" /\ w.i \in w.classified
     /\ Len(Current.parents) = 1 /\ FullyClassifiable(Current.files))
        => RowsOf(db.changes, w.i) # EmptyBag

\* the same, for a diff that is not empty
C5_ReceivesRowsOfChanges ==
    (/\ w.pc = "sample" /\ w.i \in w.classified
     /\ Len(Current.parents) = 1 /\ FullyClassifiable(Current.files)
     /\ Current.files # <<>>)
        => RowsOf(db.changes, w.i) # EmptyBag

\* C5 as stated: on a walk with classification enabled a commit without
\* Change rows is classified again and has Change rows after it when its diff
\* is fully classifiable; a commit with a Change row is never classified
\* again and no walk deletes or modifies its Change rows.
C5_AsStated ==
    [][C5_Reclassified /\ C5_RowsKept /\ C5_ReceivesRows']_vars

\* C5 (amended): as above, but the commit receives Change rows when its
\* diff is fully classifiable and changes at least one file; a fully
\* classifiable commit with an empty diff has no Change row to receive and
\* is classified again on every walk.
C5_Amended ==
    [][C5_Reclassified /\ C5_RowsKept /\ C5_ReceivesRowsOfChanges']_vars

\* a walk after a completed classifying walk has classified the root commit
\* (no Change rows) again and passed over commit 1, whose rows are in place
C5_Witness ==
    /\ walks >= 2 /\ prev.complete /\ prev.flags.classify /\ w.flags.classify
    /\ Len(commits) > 1 /\ w.i = 1 /\ w.pc = "sample"
    /\ w.classified = {0}
    /\ RowsOf(db.changes, 1) = CompleteChangeSet(1)
    /\ RowsOf(db.changes, 1) # EmptyBag

\* C6: after any walk, the Commit rows with consecutive ids i and i + 1
\* have date[i] <= date[i + 1].
C6_DatesOrdered ==
    w.pc = "idle" =>
        \A r1 \in db.commits : \A r2 \in db.commits :
            r2.id = r1.id + 1 => r1.date <= r2.date

\* C7: no step of any walk stores another hash or date under an id that has
\* a Commit row, and no hash is stored under two ids.
C7_IdsStable ==
    [][/\ \A r \in db.commits : \A q \in db'.commits :
              q.id = r.id => (q.hash = r.hash /\ q.date = r.date)
       /\ \A r \in db'.commits : \A q \in db'.commits :
              r.hash = q.hash => r.id = q.id]_vars

SamePair(r1, r2) == r1.repo_id = r2.repo_id /\ r1.distro = r2.distro

\* r1 comes right before r2 however rows of equal date are ordered
Adjacent(r1, r2) ==
    /\ SamePair(r1, r2)
    /\ r1.date < r2.date
    /\ \A r3 \in db.tags \ {r1, r2} :
          SamePair(r1, r3) => (r3.date < r1.date \/ r3.date > r2.date)

\* C8: after any sequence of check_tags calls, two Tag rows of one
\* (repo_id, distro) pair that are adjacent by date differ in (tag,
\* is_release).
C8_TagsCompacted ==
    w.pc = "idle" =>
        \A r1 \in db.tags : \A r2 \in db.tags :
            Adjacent(r1, r2) => <<r1.tag, r1.is_release>> # <<r2.tag, r2.is_release>>

\* the rows the claim gives commit_id for a snapshot
SnapshotRows(commit_id, repositories) ==
    LET keys == DOMAIN repositories.dict
        names(d) == {repositories.dict[d][k].name : k \in DOMAIN repositories.dict[d]}
        per_distro == {[commit_id |-> commit_id, distro |-> d,
                        count |-> Cardinality(names(d))] : d \in keys}
        all_row == [commit_id |-> commit_id, distro |-> "all",
                    count |-> Cardinality(UNION {names(d) : d \in keys})]
    IN  SetToBag(IF keys \cap ros1_distros # {}
                   THEN per_distro \cup {all_row} ELSE per_distro)

\* C9: when count_repos returns, the RepoCount rows of the commit are one
\* row per distro of the snapshot and, if and only if a ROS 1 distro is in
\* the snapshot, an `all` row counting the distinct repository names.
C9_CountRows ==
    [][(w.caller = "count_repos" /\ w.pc = "count_distro" /\ w'.pc = "idle")
          => RowsOf(db'.repo_count, w.i) = SnapshotRows(w.i, w.repositories)]_vars

\* one commit counted with a ROS 1 distro has its `all` row, another
\* counted with ROS 2 distros only has rows and no `all` row
C9_Witness ==
    /\ w.pc = "idle"
    /\ \E r \in BagToSet(db.repo_count) : r.commit_id = 0 /\ r.distro = "all"
    /\ \E r \in BagToSet(db.repo_count) :
           r.commit_id = CountStride /\ r.distro \in ros2_distros
    /\ \A r \in BagToSet(db.repo_count) :
           r.commit_id = CountStride => r.distro \in ros2_distros

UnseenParents(commit_id) ==
    {k \in DOMAIN commits[commit_id + 1].parents :
        commits[commit_id + 1].parents[k].hexsha \notin MainPathAt(commit_id)}

TheUnseenParent(commit_id) ==
    commits[commit_id + 1].parents[CHOOSE k \in UnseenParents(commit_id) : TRUE]

\* two or more parents, exactly one of them not in main_path, and that one
\* with a single parent which is in main_path
IsSubstituted(commit_id) ==
    /\ Len(commits[commit_id + 1].parents) >= 2
    /\ Cardinality(UnseenParents(commit_id)) = 1
    /\ Len(TheUnseenParent(commit_id).parents) = 1
    /\ TheUnseenParent(commit_id).parents[1] \in MainPathAt(commit_id)

\* the rows of the diff of a commit against its single parent
DiffRows(files, commit_id) ==
    LET r == ClassifyFiles(files, commit_id,
                           [all_valid |-> TRUE, seen |-> {}, entries |-> <<>>])
    IN  IF r.all_valid THEN SetToBag(Range(r.entries)) ELSE EmptyBag

\* C10: a merge with exactly one unseen parent, whose single parent is in
\* main_path, is classified by the diff of that parent, and its Commit row
\* has the id, hash and date of the merge with the author and email of the
\* parent.
C10_WeirdMergeSubstitution ==
    \A i \in Ids :
        (IsSubstituted(i) /\ ClassifiedNow(i)) =>
            /\ {r \in db.commits : r.id = i}
                 = {[id |-> i, hash |-> commits[i + 1].hexsha,
                     date |-> commits[i + 1].authored_date,
                     author |-> TheUnseenParent(i).author.name,
                     email |-> TheUnseenParent(i).author.email]}
            /\ RowsOf(db.changes, i) = DiffRows(TheUnseenParent(i).files, i)

\* such a merge by bob of a commit by alice has been classified: its rows
\* are those of the parent's diff, not of its own
C10_Witness ==
    /\ Len(commits) > 2
    /\ IsSubstituted(2) /\ ClassifiedNow(2)
    /\ commits[3].author = Bob /\ TheUnseenParent(2).author = Alice
    /\ \E r \in db.commits : r.id = 2 /\ r.author = Alice.name
    /\ RowsOf(db.changes, 2) # EmptyBag
    /\ RowsOf(db.changes, 2) # DiffRows(commits[3].files, 2)


\* more than one parent, every one of them in main_path
IsVisibleMerge(commit_id) ==
    /\ Len(commits[commit_id + 1].parents) > 1
    /\ UnseenParents(commit_id) = {}

\* C11: a commit with more than one parent, all of them in main_path, is
\* not diffed: once the walk has classified it, its Change rows are exactly
\* the one row {commit_id, change_index 0, verb merge}.
C11_VisibleMergeOneRow ==
    \A i \in Ids :
        (IsVisibleMerge(i) /\ ClassifiedNow(i)) =>
            RowsOf(db.changes, i) =
                SetToBag({[commit_id |-> i, change_index |-> 0, verb |-> "merge",
                           noun |-> NULL, detail |-> NULL]})

\* a merge whose own diff against its first parent is not empty has been
\* classified, and none of that diff is among its rows
C11_Witness ==
    /\ Len(commits) > 3
    /\ IsVisibleMerge(3) /\ ClassifiedNow(3)
    /\ commits[4].files # <<>>
    /\ FullyClassifiable(commits[4].files)
    /\ BagCardinality(RowsOf(db.changes, 3)) = 1
    /\ \A r \in BagToSet(db.changes) : r.commit_id = 3 => r.verb = "merge"


----------------------------------------------------------------------------
(* version_compare (util.py:142-164).  A text is the sequence of its        *)
(* characters; a YAML scalar is [t |-> "str", s |-> text], and None or a    *)
(* number is a record with another t.                                       *)

Str(s) == [t |-> "str", s |-> s]

NoneVal == [t |-> "none"]

NumVal == [t |-> "num"]

IsDigit(c) == c \in {"0", "1", "2", "3", "4", "5", "6", "7", "8", "9"}

\* (\d+) from place i: the place after the longest run of digits
RECURSIVE DigitsEnd(_, _)
DigitsEnd(s, i) ==
    IF i <= Len(s) /\ IsDigit(s[i]) THEN DigitsEnd(s, i + 1) ELSE i

NoGroups == [matched |-> FALSE]

\* SHORT_VERSION_PATTERN.match(s): NUM DOT NUM DOT NUM at the start of s
MatchShort(s) ==
    LET e1 == DigitsEnd(s, 1)
        e2 == DigitsEnd(s, e1 + 1)
        e3 == DigitsEnd(s, e2 + 1)
    IN  IF /\ e1 > 1 /\ e1 <= Len(s) /\ s[e1] = "."
           /\ e2 > e1 + 1 /\ e2 <= Len(s) /\ s[e2] = "."
           /\ e3 > e2 + 1
          THEN [matched |-> TRUE, end |-> e3,
                groups |-> <<SubSeq(s, 1, e1 - 1), SubSeq(s, e1 + 1, e2 - 1),
                             SubSeq(s, e2 + 1, e3 - 1)>>]
          ELSE NoGroups

\* FULL_VERSION_PATTERN.match(s): the short version, '-' and NUM
MatchFull(s) ==
    LET m == MatchShort(s)
        e4 == IF m.matched THEN DigitsEnd(s, m.end + 1) ELSE 0
    IN  IF m.matched /\ m.end <= Len(s) /\ s[m.end] = "-" /\ e4 > m.end + 1
          THEN [matched |-> TRUE, end |-> e4,
                groups |-> Append(m.groups, SubSeq(s, m.end + 1, e4 - 1))]
          ELSE NoGroups

VERSIONS == <<"major", "minor", "patch", "build">>

\* fault: the components are looked at from the last to the first
LastDifference(g1, g2) ==
    LET n == IF Len(g1) < Len(g2) THEN Len(g1) ELSE Len(g2)
        differ == {i \in 1..n : g1[i] # g2[i]}
    IN  IF differ = {} THEN NULL
        ELSE VERSIONS[CHOOSE i \in differ : \A j \in differ : j <= i]

\* util.py:162-164: the loop over the zipped groups
FirstDifference(g1, g2) ==
    LET n == IF Len(g1) < Len(g2) THEN Len(g1) ELSE Len(g2)
        differ == {i \in 1..n : g1[i] # g2[i]}
    IN  IF differ = {} THEN NULL ELSE VERSIONS[Min(differ)]

version_compare(before, after) ==
    IF before.t # "str" \/ after.t # "str" THEN NULL
    ELSE LET before_f == MatchFull(before.s)
             after_f == MatchFull(after.s)
             before_s == MatchShort(before.s)
             after_s == MatchShort(after.s)
         IN  IF before_f.matched /\ after_f.matched
               THEN FirstDifference(before_f.groups, after_f.groups)
             ELSE IF before_s.matched /\ after_s.matched
               THEN FirstDifference(before_s.groups, after_s.groups)
             ELSE NULL


\* A version text is written from its parts: text before the numbers, the
\* dotted components, the build number (<<>> when there is none) and text
\* after them that starts with neither a digit nor a build number.
VersionText(lead, comps, build, trail) ==
    [t |-> "version", lead |-> lead, comps |-> comps, build |-> build,
     trail |-> trail]

RECURSIVE Dotted(_)
Dotted(comps) ==
    IF Len(comps) = 1 THEN comps[1]
    ELSE comps[1] \o <<".">> \o Dotted(Tail(comps))

Render(v) ==
    v.lead \o Dotted(v.comps)
        \o (IF v.build = <<>> THEN <<>> ELSE <<"-">> \o v.build) \o v.trail

\* the value handed to version_compare
Scalar(v) == IF v.t = "version" THEN Str(Render(v)) ELSE v

V_1_2_3_4 == VersionText(<<>>, <<<<"1">>, <<"2">>, <<"3">>>>, <<"4">>, <<>>)

V_1_2_3 == VersionText(<<>>, <<<<"1">>, <<"2">>, <<"3">>>>, <<>>, <<>>)

BeforeVersions ==
    {V_1_2_3_4, V_1_2_3,
     VersionText(<<"v">>, <<<<"1">>, <<"2">>, <<"3">>>>, <<"4">>, <<>>),
     VersionText(<<>>, <<<<"1">>, <<"2">>, <<"3">>>>, <<"4">>, <<"~", "x">>),
     VersionText(<<>>, <<<<"1">>, <<"2">>>>, <<>>, <<>>),
     NumVal}

AfterVersions ==
    {VersionText(lead, <<major, minor, patch>>, build, trail) :
        lead \in {<<>>, <<"v">>},
        major \in {<<"1">>, <<"2">>},
        minor \in {<<"2">>, <<"0">>, <<"2", "0">>},
        patch \in {<<"3">>, <<"4">>, <<"0">>},
        build \in {<<>>, <<"4">>, <<"5">>},
        trail \in {<<>>, <<".", "x">>}}
    \cup {VersionText(<<>>, <<<<"1">>, <<"2">>>>, <<>>, <<>>), NumVal, NoneVal}

InitVersion ==
    /\ commits = <<RootCommit(TreeEmpty)>>
    /\ net = NoNet
    /\ db = EmptyDB
    /\ w \in {[pc |-> "call", caller |-> "version_compare", before |-> b,
               after |-> a, result |-> NULL] :
                 b \in BeforeVersions, a \in AfterVersions}
    /\ walks = 0
    /\ prev = NoPrev

\* vc = version_compare(left, right) (rosdistro.py:279, 285)
VersionCompareStep ==
    /\ w.pc = "call" /\ w.caller = "version_compare"
    /\ w' = [w EXCEPT !.pc = "return",
                      !.result = version_compare(Scalar(w.before), Scalar(w.after))]
    /\ UNCHANGED <<commits, net, db, walks, prev>>

NextVersion == VersionCompareStep

SpecVersion == InitVersion /\ [][NextVersion]_vars

\* the text is major.minor.patch, maybe with a build number, from its start
Parses(v) == v.t = "version" /\ v.lead = <<>> /\ Len(v.comps) = 3

\* the components compared: with the build number when both texts have one
Parts(v, with_build) == IF with_build THEN Append(v.comps, v.build) ELSE v.comps

ExpectedBump(b, a) ==
    IF ~(Parses(b) /\ Parses(a)) THEN NULL
    ELSE LET with_build == b.build # <<>> /\ a.build # <<>>
             pb == Parts(b, with_build)
             pa == Parts(a, with_build)
             differ == {i \in DOMAIN pb : pb[i] # pa[i]}
         IN  IF differ = {} THEN NULL
             ELSE <<"major", "minor", "patch", "build">>[
                      CHOOSE i \in differ : \A j \in differ : i <= j]

\* C13: version_compare returns the name of the first of major, minor,
\* patch, build in which the two texts differ (build only when both have
\* one), and null when a text does not parse or no component differs; in
\* particular 1.2.3-4 to 1.2.4-4 is patch, 1.2.3-4 to 2.0.0-4 is major and
\* 1.2.3 to 1.2.3 is null.
C13_FirstDifferingComponent ==
    (w.pc = "return" /\ w.caller = "version_compare") =>
        /\ w.result = ExpectedBump(w.before, w.after)
        /\ (w.before = V_1_2_3_4 /\ w.after =
                VersionText(<<>>, <<<<"1">>, <<"2">>, <<"4">>>>, <<"4">>, <<>>))
              => w.result = "patch"
        /\ (w.before = V_1_2_3_4 /\ w.after =
                VersionText(<<>>, <<<<"2">>, <<"0">>, <<"0">>>>, <<"4">>, <<>>))
              => w.result = "major"
        /\ (w.before = V_1_2_3 /\ w.after = V_1_2_3) => w.result = NULL

\* 1.2.3-4 has been compared with 2.0.4-5, which differs in every
\* component but the minor one, and the answer is major
C13_Witness ==
    /\ w.pc = "return" /\ w.caller = "version_compare"
    /\ w.before = V_1_2_3_4
    /\ w.after.t = "version"
    /\ Render(w.after) = <<"2", ".", "2", ".", "4", "-", "5">>
    /\ w.result = "major"


----------------------------------------------------------------------------
(* wild_array_compare (rosdistro.py:155-163) on sequences of segments       *)

\* lines 158-163: the loop over zip(a, b), which stops at the shorter one
ZipMatches(a, b) ==
    LET n == IF Len(a) < Len(b) THEN Len(a) ELSE Len(b)
    IN  \A i \in 1..n : a[i] = "*" \/ b[i] = "*" \/ a[i] = b[i]

\* fault: the lengths are never compared
WildPrefixCompare(a, b, check_length) == ZipMatches(a, b)

wild_array_compare(a, b, check_length) ==
    IF check_length /\ Len(a) # Len(b) THEN FALSE ELSE ZipMatches(a, b)

MaxSegments == 3

Segments == {"repositories", "pkgA", "release", "*"}

SegmentPaths == UNION {[1..n -> Segments] : n \in 0..MaxSegments}

InitWild ==
    /\ commits = <<RootCommit(TreeEmpty)>>
    /\ net = NoNet
    /\ db = EmptyDB
    /\ w \in {[pc |-> "call", caller |-> "wild_array_compare", a |-> a, b |-> b,
               check_length |-> c, result |-> FALSE] :
                 a \in SegmentPaths, b \in SegmentPaths, c \in BOOLEAN}
    /\ walks = 0
    /\ prev = NoPrev

\* wild_array_compare(path, pattern) / wild_array_compare(path, pattern, False)
WildCompareStep ==
    /\ w.pc = "call" /\ w.caller = "wild_array_compare"
    /\ w' = [w EXCEPT !.pc = "return",
                      !.result = wild_array_compare(w.a, w.b, w.check_length)]
    /\ UNCHANGED <<commits, net, db, walks, prev>>

NextWild == WildCompareStep

SpecWild == InitWild /\ [][NextWild]_vars

\* C14: with the length check on, wild_array_compare is true exactly when
\* the two sequences have the same number of segments and at every place
\* the segments are equal or one of them is '*'; so ['repositories', '*']
\* matches ['repositories', 'pkgA'] and not ['repositories', 'pkgA',
\* 'release'], which ['repositories', '*', '*'] matches.
C14_WildcardMatch ==
    (w.pc = "return" /\ w.caller = "wild_array_compare" /\ w.check_length) =>
        /\ w.result <=>
              /\ Len(w.a) = Len(w.b)
              /\ \A i \in DOMAIN w.a :
                    w.a[i] = w.b[i] \/ w.a[i] = "*" \/ w.b[i] = "*"
        /\ (w.a = <<"repositories", "pkgA">> /\ w.b = <<"repositories", "*">>)
              => w.result
        /\ (w.a = <<"repositories", "pkgA", "release">>
              /\ w.b = <<"repositories", "*">>) => ~w.result
        /\ (w.a = <<"repositories", "pkgA", "release">>
              /\ w.b = <<"repositories", "*", "*">>) => w.result

\* the longer path has been compared with the shorter pattern, which
\* matches its first two segments, and the answer is false
C14_Witness ==
    /\ w.pc = "return" /\ w.caller = "wild_array_compare" /\ w.check_length
    /\ w.a = <<"repositories", "pkgA", "release">>
    /\ w.b = <<"repositories", "*">>
    /\ ~w.result


----------------------------------------------------------------------------
(* MetricDB.update and the WHERE clause it formats (metric_db.py:139-202).  *)
(* A table without primary key is a bag of rows; all columns are text.      *)

\* text values that contain a double / a single quote character
WithDoubleQuote == {"\"user\""}

WithSingleQuote == {}

\* format_value for a text field, as sqlite reads the result back: the
\* text of the token is the value again (a doubled quote is one quote),
\* and the token is quoted with ' only if the value holds a " and no '
format_value(field, value) ==
    IF value \in WithDoubleQuote
    THEN IF value \in WithSingleQuote
         THEN [quote |-> "double", text |-> value]
         ELSE [quote |-> "single", text |-> value]
    ELSE [quote |-> "double", text |-> value]

\* sqlite's reading of a quoted token in a row r: a "..." token that names
\* a column of the table is that column, any other token is a string
Operand(token, r) ==
    IF token.quote = "double" /\ token.text \in DOMAIN r
    THEN r[token.text]
    ELSE token.text

\* column = operand in SQL: never true on a null
SqlEquals(x, y) == x # NULL /\ y # NULL /\ x = y

\* the key given as one column name, or as a list of column names
StrKey(k) == [t |-> "str", k |-> k]

ListKey(ks) == [t |-> "list", ks |-> ks]

KeyColumns(replace_key) ==
    IF replace_key.t = "str" THEN {replace_key.k} ELSE replace_key.ks

\* lines 141-147: the clause, evaluated on a row
Clause(r, row_dict, replace_key) ==
    \A key \in KeyColumns(replace_key) :
        SqlEquals(r[key], Operand(format_value(key, row_dict[key]), r))

\* lines 152-158: the columns of the SET; `k == replace_key` is true only
\* for a key given as one name
SetOf(row_dict, replace_key) ==
    IF replace_key.t = "str" THEN DOMAIN row_dict \ {replace_key.k}
    ELSE DOMAIN row_dict

\* the rows of a bag that are in `selected` (those a clause is true on),
\* with their copies
SelectRows(table, selected) ==
    [r \in DOMAIN table \cap selected |-> table[r]]

\* MetricDB.count(table, clause)
count(table, selected) == BagCardinality(SelectRows(table, selected))

\* UPDATE table SET c=? ... on one row
SetRow(r, row_dict, cols_set) ==
    [c \in DOMAIN r |-> IF c \in cols_set THEN row_dict[c] ELSE r[c]]

\* MetricDB.update(table, row_dict, replace_key); an UPDATE with nothing
\* to set is a syntax error that execute re-raises (lines 49-53)
update(table, cols, row_dict, replace_key) ==
    LET matches(r) == Clause(r, row_dict, replace_key)
        inserted == IF count(table, {r \in DOMAIN table : matches(r)}) = 0
                    THEN Insert(table, NewRow(cols, row_dict))
                    ELSE table
        cols_set == SetOf(row_dict, replace_key)
        written(r) == IF matches(r) THEN SetRow(r, row_dict, cols_set) ELSE r
    IN  IF cols_set = {}
        THEN [table |-> inserted, raised |-> TRUE]
        ELSE [table |-> BagOfAll(written, inserted), raised |-> FALSE]

MaxRows == 2

RevisionCols == {"page_id", "number", "user"}

ColumnValues(c) ==
    IF c = "number" THEN {"1", "2"} ELSE {"1", "user", "\"user\""}

\* rows and row_dicts over a set of columns; a stored column may be null
StoredRows ==
    {r \in [RevisionCols -> {NULL, "1", "2", "user", "\"user\""}] :
        \A c \in RevisionCols : r[c] \in ColumnValues(c) \/ (c = "user" /\ r[c] = NULL)}

RowDicts(S) ==
    {r \in [S -> {"1", "2", "user", "\"user\""}] : \A c \in S : r[c] \in ColumnValues(c)}

\* the bags of at most n of the given rows
RECURSIVE BagsUpTo(_, _)
BagsUpTo(rows, n) ==
    IF n = 0 THEN {EmptyBag}
    ELSE LET smaller == BagsUpTo(rows, n - 1)
         IN  smaller \cup {b (+) SetToBag({r}) : b \in smaller, r \in rows}

RevisionTables == BagsUpTo(StoredRows, MaxRows)

UpdateKeys == {StrKey("page_id"), StrKey("user"), ListKey({"page_id", "number"})}

UpdateCalls ==
    {c \in [row_dict : UNION {RowDicts(S) : S \in SUBSET RevisionCols},
            replace_key : UpdateKeys] :
        KeyColumns(c.replace_key) \subseteq DOMAIN c.row_dict}

InitUpdate ==
    /\ commits = <<RootCommit(TreeEmpty)>>
    /\ net = NoNet
    /\ db \in {[revisions |-> t] : t \in RevisionTables}
    /\ w \in {[pc |-> "call", caller |-> "update", row_dict |-> c.row_dict,
               replace_key |-> c.replace_key, before |-> EmptyBag,
               raised |-> FALSE] : c \in UpdateCalls}
    /\ walks = 0
    /\ prev = NoPrev

\* db.update('revisions', row_dict, replace_key)
UpdateStep ==
    /\ w.pc = "call" /\ w.caller = "update"
    /\ LET done == update(db.revisions, RevisionCols, w.row_dict, w.replace_key)
       IN  /\ db' = [db EXCEPT !.revisions = done.table]
           /\ w' = [w EXCEPT !.pc = "return", !.before = db.revisions,
                             !.raised = done.raised]
    /\ UNCHANGED <<commits, net, walks, prev>>

NextUpdate == UpdateStep

SpecUpdate == InitUpdate /\ [][NextUpdate]_vars


\* the row matches the key value(s) of the call
MatchesKey(r) ==
    \A key \in KeyColumns(w.replace_key) : r[key] = w.row_dict[key]

\* the row after the update, as the contract gives it
Updated(r) ==
    [c \in DOMAIN r |->
        IF MatchesKey(r) /\ c \in DOMAIN w.row_dict
                         /\ c \notin KeyColumns(w.replace_key)
        THEN w.row_dict[c] ELSE r[c]]

\* C15: update(table, rowMapping, key): if at least one row matches the
\* key value(s), each matching row gets every non-key field of rowMapping
\* set, every other column and row keeps its value and the row count is
\* unchanged; if no row matches, exactly one new row equal to rowMapping
\* is inserted and no other row changes.
C15_UpdateFrame ==
    (w.pc = "return" /\ w.caller = "update") =>
        IF \E r \in DOMAIN w.before : MatchesKey(r)
        THEN /\ BagCardinality(db.revisions) = BagCardinality(w.before)
             /\ \A s \in DOMAIN db.revisions \cup {Updated(r) : r \in DOMAIN w.before} :
                   CopiesIn(s, db.revisions) =
                       count(w.before, {r \in DOMAIN w.before : Updated(r) = s})
        ELSE db.revisions =
                 w.before (+) SetToBag({NewRow(RevisionCols, w.row_dict)})


----------------------------------------------------------------------------
(* MetricDB.get_entry_id (metric_db.py:171-182) on the table binary_repos   *)
(* of binaries.py:48-49, which starts empty                                 *)

MaxCalls == 3

BinaryRepoCols == {"id", "org", "repo"}

\* the (org, repo) pairs asked for; "repo" is also the name of a column
BinaryRepos == [org : {"a", "repo"}, repo : {"a", "b", "repo"}]

\* lines 173-176: the clause over all the given values, on a row
EntryClause(r, values) ==
    \A k \in DOMAIN values :
        SqlEquals(r[k], Operand(format_value(k, values[k]), r))

\* line 180: values['id'] = entry_id
WithId(values, entry_id) ==
    [c \in DOMAIN values \cup {"id"} |->
        IF c = "id" THEN entry_id ELSE values[c]]

InitEntry ==
    /\ commits = <<RootCommit(TreeEmpty)>>
    /\ net = NoNet
    /\ db = [binary_repos |-> {}]
    /\ w = [caller |-> "get_entry_id", calls |-> 0, values |-> [org |-> "a", repo |-> "a"],
            before |-> {}, result |-> 0]
    /\ walks = 0
    /\ prev = NoPrev

\* repo_id = db.get_entry_id('binary_repos', repo_dict); LIMIT 1 takes any
\* one of the rows the clause selects
GetEntryId ==
    /\ w.calls < MaxCalls
    /\ \E values \in BinaryRepos :
          LET found == {r \in db.binary_repos : EntryClause(r, values)}
              entry_id == get_next_id(db.binary_repos)
              called == [w EXCEPT !.calls = @ + 1, !.values = values,
                                  !.before = db.binary_repos]
          IN  IF found = {}
              THEN /\ db' = [db EXCEPT !.binary_repos =
                                InsertKeyed(@, NewRow(BinaryRepoCols,
                                                      WithId(values, entry_id)))]
                   /\ w' = [called EXCEPT !.result = entry_id]
              ELSE /\ \E r \in found : w' = [called EXCEPT !.result = r.id]
                   /\ UNCHANGED db
    /\ UNCHANGED <<commits, net, walks, prev>>

NextEntry == GetEntryId

SpecEntry == InitEntry /\ [][NextEntry]_vars

\* the row holds all the values asked for
HoldsValues(r) == \A k \in DOMAIN w.values : r[k] = w.values[k]

\* the smallest non-negative integer that is no id of the table
SmallestFreeId(table) ==
    CHOOSE n \in 0..Cardinality(table) :
        /\ \A r \in table : r.id # n
        /\ \A k \in 0..(n - 1) : \E r \in table : r.id = k

\* C16: get_entry_id returns the id of an existing row that matches all
\* matchFields and writes nothing; otherwise it inserts exactly one row
\* holding matchFields plus the smallest non-negative id not in use and
\* returns that id. So a repeated call adds no row, and the ids of the
\* table stay pairwise distinct.
C16_EntryId ==
    w.calls > 0 =>
        /\ IF \E r \in w.before : HoldsValues(r)
           THEN /\ db.binary_repos = w.before
                /\ \E r \in w.before : HoldsValues(r) /\ r.id = w.result
           ELSE /\ w.result = SmallestFreeId(w.before)
                /\ db.binary_repos =
                       w.before \cup {[id |-> w.result, org |-> w.values.org,
                                       repo |-> w.values.repo]}
        /\ \A r1 \in db.binary_repos : \A r2 \in db.binary_repos :
              r1.id = r2.id => r1 = r2


----------------------------------------------------------------------------
(* MetricDB(key): _update_database_structure (metric_db.py:204-240).        *)
(* A store maps a table name to NoTable or to its columns and its rows;     *)
(* db_structure['tables'] maps a name to NotDeclared or to its columns.     *)

NoTable == [exists |-> FALSE]

Table(cols, rows) == [exists |-> TRUE, cols |-> cols, rows |-> rows]

NotDeclared == [declared |-> FALSE]

Declared(cols) == [declared |-> TRUE, cols |-> cols]

\* _table_exists(table)
_table_exists(store, table) == store[table].exists

\* _create_table(table): CREATE TABLE with the declared columns
_create_table(keys) == Table(keys, EmptyBag)

\* fault: the table is created again with the declared columns
RecreateTable(old, keys) == Table(keys, EmptyBag)

\* _update_table(table): ALTER TABLE ... ADD COLUMN for every declared
\* column that the table lacks; the rows get a null there
_update_table(old, keys) ==
    LET missing == {key \in keys : key \notin old.cols}
        widened(r) == [c \in old.cols \cup missing |->
                          IF c \in DOMAIN r THEN r[c] ELSE NULL]
    IN  Table(old.cols \cup missing, BagOfAll(widened, old.rows))

\* _update_database_structure()
_update_database_structure(store, tables) ==
    [table \in DOMAIN store |->
        IF ~tables[table].declared THEN store[table]
        ELSE IF ~_table_exists(store, table)
             THEN _create_table(tables[table].cols)
             ELSE _update_table(store[table], tables[table].cols)]

SchemaCols == {"id", "hash", "date"}

\* the tables a store of at most MaxRows rows may hold over some columns
TablesOver(colsets, values) ==
    UNION {{Table(cols, rows) : rows \in BagsUpTo([cols -> values], MaxRows)} :
              cols \in colsets}

Declarations ==
    {NotDeclared} \cup {Declared(cols) : cols \in SUBSET SchemaCols \ {{}}}

InitOpen ==
    /\ commits = <<RootCommit(TreeEmpty)>>
    /\ net = NoNet
    /\ db \in {[commits |-> c, changes |-> g] :
                 c \in {NoTable} \cup TablesOver(SUBSET SchemaCols \ {{}}, {NULL, "v"}),
                 g \in {NoTable} \cup TablesOver({{"id"}}, {NULL, "v"})}
    /\ w \in {[pc |-> "call", caller |-> "MetricDB", tables |-> [commits |-> c, changes |-> g],
               before |-> [commits |-> NoTable, changes |-> NoTable]] :
                 c \in Declarations, g \in Declarations}
    /\ walks = 0
    /\ prev = NoPrev

\* MetricDB(key): the structure file is loaded and the store brought up
\* to it
Open ==
    /\ w.pc = "call" /\ w.caller = "MetricDB"
    /\ db' = _update_database_structure(db, w.tables)
    /\ w' = [w EXCEPT !.pc = "return", !.before = db]
    /\ UNCHANGED <<commits, net, walks, prev>>

NextOpen == Open

SpecOpen == InitOpen /\ [][NextOpen]_vars

\* the row cut down to the given columns
Restricted(r, cols) == [c \in cols |-> r[c]]

\* C17: after MetricDB(name) has opened a store, every declared table
\* exists with every declared column; every table, column and row value
\* that existed before is still there unchanged; a column the migration
\* added is null in all the rows that existed before.
C17_OpenKeepsData ==
    (w.pc = "return" /\ w.caller = "MetricDB") =>
        \A table \in DOMAIN db :
            /\ w.tables[table].declared =>
                  /\ db[table].exists
                  /\ w.tables[table].cols \subseteq db[table].cols
            /\ w.before[table].exists =>
                  /\ db[table].exists
                  /\ w.before[table].cols \subseteq db[table].cols
                  /\ BagOfAll(LAMBDA r : Restricted(r, w.before[table].cols),
                              db[table].rows) = w.before[table].rows
                  /\ \A r \in DOMAIN db[table].rows :
                        \A c \in db[table].cols \ w.before[table].cols :
                            r[c] = NULL

\* a table with a row has been opened under a schema that declares
\* a column it lacked, and the row has a null there
C17_Witness ==
    /\ w.pc = "return" /\ w.caller = "MetricDB"
    /\ w.before.commits.exists
    /\ w.before.commits.cols = {"id", "hash"}
    /\ w.tables.commits.declared /\ w.tables.commits.cols = {"id", "date"}
    /\ w.before.commits.rows = SetToBag({[id |-> "v", hash |-> "v"]})
    /\ db.commits.rows = SetToBag({[id |-> "v", hash |-> "v", date |-> NULL]})
    /\ ~w.before.changes.exists /\ w.tables.changes.declared
    /\ db.changes.exists


----------------------------------------------------------------------------
(* check_tags on entries whose source URL has to come from the release      *)
(* repository, over a network that times out, fails or answers              *)

\* an entry with a release section only
E_r == Entry("a", NULL, R_a, Version("1.0.0", "0"), NULL)

ReleaseTrees ==
    {[TreeEmpty EXCEPT !["kinetic"] = Folder(<<E_r, E_b>>)],
     [TreeEmpty EXCEPT !["kinetic"] = Folder(<<E_r>>),
                       !["ardent"] = Folder(<<E_r>>)]}

\* what a request to the release repository of E_r does
Nets == {[NoNet EXCEPT ![R_a] = o] : o \in {"timeout", "error", U_a}}

InitNet ==
    /\ commits = <<RootCommit(TreeEmpty)>>
    /\ net \in Nets
    /\ db = EmptyDB
    /\ w = Idle
    /\ walks = 0
    /\ prev = NoPrev

\* between two checkpoints the remote side changes
NetworkChanges ==
    /\ w.pc = "idle"
    /\ net' \in Nets \ {net}
    /\ UNCHANGED <<commits, db, w, walks, prev>>

NextNet ==
    \/ \E tree \in ReleaseTrees, timestamp \in {DateIn, DateAfter} :
           CallCheckTags(walks * TagStride, tree, timestamp)
    \/ NetworkChanges
    \/ TagsDistroStep
    \/ TagsDistroRaise
    \/ TagsRepoStep
    \/ TagsDoneStep

SpecNet == InitNet /\ [][NextNet]_vars

\* C18: when the resolution of an entry's release URL fails with a request
\* error that is no connection timeout, check_tags does not raise: the
\* entry counts as unresolved, the other entries and distros are still
\* processed and the commit is recorded in tags_checked.
C18_RequestErrorTolerated ==
    /\ w.caller # "TypeError"
    /\ (w.pc = "idle" /\ walks > 0) =>
          [commit_id |-> (walks - 1) * TagStride] \in BagToSet(db.tags_checked)

\* the store holds a null source URL for (release_url, distro); over Nets
\* only a timed-out resolution leaves one
StoredTimeout(release_url, distro) ==
    \E r \in BagToSet(db.release_url_map) :
        r.release_url = release_url /\ r.distro = distro /\ r.src_url = NULL

\* C19: a release-URL resolution that timed out is not a final answer: a
\* later tag checkpoint for the same (release_url, distro) goes to the
\* network again instead of using the stored null.
C19_TimeoutRetried ==
    [][(w.pc = "tags_distro" /\ w.todo # <<>> /\ w'.caller = "check_tags") =>
          LET distro == Head(w.todo)
              distro_dict == w.repositories.dict[distro]
          IN  \A i \in DOMAIN distro_dict :
                  (distro_dict[i].source_url = NULL
                   /\ StoredTimeout(distro_dict[i].release_url, distro))
                      => <<distro_dict[i].release_url, distro>> \in w'.asked]_vars


----------------------------------------------------------------------------
(* resolve (repo_utils.py:81-108).  A URL is a sequence of pieces: the      *)
(* scheme with the host, the path, and then any of ".git" and "/".          *)

MaxRedirects == 2

Https == "https://github.com/"

GitUri == "git://github.com/"

GitSsh == "git@github.com:"

UrlSuffixes == {<<>>, <<"/">>, <<".git">>, <<".git", "/">>}

UrlsOf(schemes) ==
    {<<s, p>> \o x : s \in schemes, p \in {"ros/a", "ros/b"}, x \in UrlSuffixes}

\* url.endswith(piece)
EndsWith(url, piece) == url # <<>> /\ url[Len(url)] = piece

\* url[:-1]
Front(url) == SubSeq(url, 1, Len(url) - 1)

\* lines 86-88: GITHUB_URI_PATTERN takes the path up to an optional final
\* .git, and the URL is rebuilt as https://github.com/{org}/{repo}.git
RewriteGitUri(url) ==
    IF url[1] = GitUri
    THEN <<Https>> \o (IF EndsWith(url, ".git") THEN Tail(Front(url)) ELSE Tail(url))
                   \o <<".git">>
    ELSE url

\* fault: the resolved URL is returned as it is
KeepResolved(original, url) == url

\* lines 103-106
AdjustSuffix(original, url) ==
    LET with_git == IF EndsWith(original, ".git") /\ ~EndsWith(url, ".git")
                    THEN Append(url, ".git") ELSE url
    IN  IF ~EndsWith(original, "/") /\ EndsWith(with_git, "/")
        THEN Front(with_git) ELSE with_git

\* the Location headers the servers answer with, one per 301, before a
\* response that is no 301
RedirectChains ==
    UNION {[1..n -> UrlsOf({Https})] : n \in 0..MaxRedirects}

InitResolve ==
    /\ commits = <<RootCommit(TreeEmpty)>>
    /\ net = NoNet
    /\ db = EmptyDB
    /\ w \in {[pc |-> "call", caller |-> "resolve", given |-> u, url |-> u,
               original |-> u, locations |-> c, result |-> <<>>] :
                 u \in UrlsOf({Https, GitUri, GitSsh}), c \in RedirectChains}
    /\ walks = 0
    /\ prev = NoPrev

\* lines 82-90
ResolveCall ==
    /\ w.pc = "call" /\ w.caller = "resolve"
    /\ w' = IF w.url[1] = GitSsh
            THEN [w EXCEPT !.pc = "return", !.result = w.url]
            ELSE [w EXCEPT !.pc = "request", !.url = RewriteGitUri(w.url),
                           !.original = RewriteGitUri(w.url)]
    /\ UNCHANGED <<commits, net, db, walks, prev>>

\* lines 92-96: one request of the loop
ResolveRequest ==
    /\ w.pc = "request"
    /\ w' = IF w.locations # <<>>
            THEN [w EXCEPT !.url = Head(w.locations), !.locations = Tail(@)]
            ELSE [w EXCEPT !.pc = "suffix"]
    /\ UNCHANGED <<commits, net, db, walks, prev>>

\* lines 103-108
ResolveReturn ==
    /\ w.pc = "suffix"
    /\ w' = [w EXCEPT !.pc = "return", !.result = AdjustSuffix(w.original, w.url)]
    /\ UNCHANGED <<commits, net, db, walks, prev>>

NextResolve == ResolveCall \/ ResolveRequest \/ ResolveReturn

SpecResolve == InitResolve /\ [][NextResolve]_vars

\* resolve has returned for a URL that is no SSH URL; w.url is the final
\* target, the one whose response was no 301
Resolved == w.pc = "return" /\ w.caller = "resolve" /\ w.given[1] # GitSsh

\* C20 as stated: resolve(url) for a non-SSH URL returns the final non-301
\* target with the original's suffix preserved: if the original ends with
\* a slash and the resolved URL does not, the result ends with a slash; if
\* the original ends with .git and the resolved URL does not, the result
\* ends with .git.
C20_AsStated ==
    Resolved =>
        /\ (EndsWith(w.given, "/") /\ ~EndsWith(w.url, "/"))
              => EndsWith(w.result, "/")
        /\ (EndsWith(w.given, ".git") /\ ~EndsWith(w.url, ".git"))
              => EndsWith(w.result, ".git")

\* C20 amended: the result is the final non-301 target, with .git appended
\* if the original ends with .git and the target does not, and otherwise
\* with a trailing slash of the target removed if the original ends with
\* none; a trailing slash of the original is not restored.  The original
\* is the URL asked for, a git://github.com URL in its https form.
C20_Amended ==
    Resolved =>
        LET adds_git == EndsWith(w.original, ".git") /\ ~EndsWith(w.url, ".git")
            cuts_slash == ~EndsWith(w.original, "/") /\ EndsWith(w.url, "/")
        IN  /\ w.original = RewriteGitUri(w.given)
            /\ adds_git => w.result = Append(w.url, ".git")
            /\ (~adds_git /\ cuts_slash) => w.result = Front(w.url)
            /\ (~adds_git /\ ~cuts_slash) => w.result = w.url
            /\ (EndsWith(w.original, "/") /\ ~EndsWith(w.url, "/"))
                  => ~EndsWith(w.result, "/")

\* a URL with a trailing slash was redirected to one without, and the
\* result has none
C20_Witness ==
    /\ Resolved
    /\ w.given = <<Https, "ros/a", "/">>
    /\ w.url = <<Https, "ros/b">>
    /\ w.result = <<Https, "ros/b">>


----------------------------------------------------------------------------
(* classify_modification on a manifest (rosdistro.py:130-152, 183-360).     *)
(* A YAML value is a scalar (Str, NumVal, NoneVal), a list or a dict; a     *)
(* file path is the sequence of its parts.                                  *)

Dict(d) == [t |-> "dict", d |-> d]

List(l) == [t |-> "list", l |-> l]

\* the truth value Python gives a YAML value
Truthy(v) ==
    IF v.t = "dict" THEN DOMAIN v.d # {}
    ELSE IF v.t = "list" THEN v.l # <<>>
    ELSE IF v.t = "str" THEN v.s # <<>>
    ELSE v.t # "none"

DiffItem(left, right, path) == [left |-> left, right |-> right, path |-> path]

\* the orders a set can be iterated in
Orders(S) ==
    {p \in [1..Cardinality(S) -> S] : \A i, j \in DOMAIN p : p[i] = p[j] => i = j}

\* yaml_diff_iterator(a, b, keys): the sequences of (left, right, path) the
\* generator can yield; the order of `set(a.keys()).union(b.keys())` is an
\* order of a set of strings, which differs from run to run
RECURSIVE yaml_diff_iterator(_, _, _)
RECURSIVE DiffAlong(_, _, _, _)
DiffAlong(a, b, keys, order) ==
    IF order = <<>> THEN {<<>>}
    ELSE LET key == Head(order)
             new_keys == Append(keys, key)
             first == IF key \in DOMAIN a.d /\ key \in DOMAIN b.d
                        THEN yaml_diff_iterator(a.d[key], b.d[key], new_keys)
                      ELSE IF key \in DOMAIN a.d
                        THEN {<<DiffItem(a.d[key], NoneVal, new_keys)>>}
                      ELSE {<<DiffItem(NoneVal, b.d[key], new_keys)>>}
         IN  {x \o y : x \in first, y \in DiffAlong(a, b, keys, Tail(order))}

yaml_diff_iterator(a, b, keys) ==
    IF a.t = "dict" /\ b.t = "dict"
    THEN UNION {DiffAlong(a, b, keys, order) :
                   order \in Orders(DOMAIN a.d \cup DOMAIN b.d)}
    ELSE IF a # b THEN {<<DiffItem(a, b, keys)>>}
    ELSE {<<>>}

\* array_verb(a, b), lines 166-180
array_verb(a, b) ==
    IF a.t = "none" /\ b.t # "none" THEN "add"
    ELSE IF b.t = "none" /\ a.t # "none" THEN "del"
    ELSE LET amb == Range(a.l) \ Range(b.l)
             bma == Range(b.l) \ Range(a.l)
         IN  IF amb # {} /\ bma = {} THEN "del"
             ELSE IF bma # {} /\ amb = {} THEN "add"
             ELSE "update"

\* lines 276-281
Verb(left, right) ==
    IF ~Truthy(left) /\ Truthy(right) THEN "add"
    ELSE IF ~Truthy(right) /\ Truthy(left) THEN "del"
    ELSE "update"

\* lines 287-289, 294-296
BumpOf(left, right) ==
    LET vc == version_compare(left, right)
    IN  IF vc = NULL THEN "other" ELSE vc

\* 'status' in path[2]
HasStatus(key) == key \in {"status", "status_description"}

Counted(item) == [item |-> item, counted |-> TRUE]

NotCounted(item) == [item |-> item, counted |-> FALSE]

\* fault: a new key under repositories is classified by the general rule
\* for the release section
ManifestItemNoPackage(left, right, path, folder) ==
    Counted(Triple("update", "release", folder))

\* lines 283-347: what one (left, right, path) yields, and whether it is
\* counted in diffs
ManifestItem(left, right, path, folder) ==
    LET verb == Verb(left, right)
        is(pattern) == wild_array_compare(path, pattern, TRUE)
        starts(pattern) == wild_array_compare(path, pattern, FALSE)
    IN  IF is(<<"repositories", "*">>) \/ (path = <<"repositories">> /\ verb = "add")
          THEN Counted(Triple(verb, "package", folder))
        ELSE IF is(<<"repositories", "*", "release", "version">>)
          THEN Counted(Triple("bump", BumpOf(left, right), folder))
        ELSE IF is(<<"repositories", "*", "version">>)
          THEN Counted(Triple("bump", BumpOf(left, right), folder))
        ELSE IF verb = "update" /\ is(<<"repositories", "*", "release", "packages">>)
          THEN Counted(Triple(verb, "release_packages", folder))
        ELSE IF is(<<"repositories", "*", "source", "version">>)
          THEN Counted(Triple("update", "src", folder))
        ELSE IF is(<<"repositories", "*", "doc", "*">>)
          THEN Counted(Triple("update", "doc", folder))
        ELSE IF is(<<"repositories", "*", "release">>)
          THEN Counted(Triple(verb, "release", folder))
        ELSE IF starts(<<"repositories", "*", "release">>)
          THEN Counted(Triple("update", "release", folder))
        ELSE IF is(<<"repositories", "*", "source">>)
          THEN Counted(Triple(verb, "source", folder))
        ELSE IF is(<<"repositories", "*", "source", "*">>)
          THEN Counted(Triple(verb, "source", folder))
        ELSE IF is(<<"repositories", "*", "*">>) /\ HasStatus(path[3])
          THEN Counted(Triple(verb, "status", folder))
        ELSE IF is(<<"repositories", "*", "doc">>)
          THEN Counted(Triple(verb, "doc", folder))
        ELSE IF Len(path) = 0 /\ verb = "add"
          THEN Counted(Triple(verb, "rosdistro", folder))
        ELSE IF is(<<"release_platforms", "*">>)
          THEN Counted(Triple(array_verb(left, right), "release_platforms", folder))
        ELSE IF is(<<"repositories", "*", "packages", "*">>)
          THEN Counted(Triple("update", "release_packages", folder))
        ELSE IF path = <<"gbp-repos">>
          THEN NotCounted(Triple("update", "release", folder))
        ELSE IF is(<<"repositories", "*", "*">>) /\ path[3] \in {"url", "uri"}
          THEN NotCounted(Triple(verb, "release", folder))
        ELSE IF is(<<"repositories", "*", "packages">>)
          THEN NotCounted(Triple(verb, "release_packages", folder))
        ELSE IF starts(<<"repositories", "*", "tags">>)
          THEN NotCounted(Triple(verb, "release", folder))
        ELSE IF path = <<"version">>
          THEN NotCounted(Triple(verb, "misc", folder))
        ELSE NotCounted(NoneItem)

\* lines 274-350: the loop over the differences and the yield that follows
\* it when none was counted
RECURSIVE ManifestYields(_, _, _, _)

\* one iteration of the loop, y being what its body yields
ManifestLoop(diff_parts, folder, yields, diffs, y) ==
    ManifestYields(Tail(diff_parts), folder, Append(yields, y.item),
                   IF y.counted THEN diffs + 1 ELSE diffs)

ManifestYields(diff_parts, folder, yields, diffs) ==
    IF diff_parts = <<>>
    THEN IF diffs = 0 THEN Append(yields, Triple("update", "release", folder))
         ELSE yields
    ELSE ManifestLoop(diff_parts, folder, yields, diffs,
                      ManifestItem(Head(diff_parts).left, Head(diff_parts).right,
                                   Head(diff_parts).path, folder))

MiscParts ==
    {"readme.rst", "CONTRIBUTING.md", "README.md", "scripts", "doc", "test",
     ".gitignore", ".github", "ros.asc", "ros.key", ".travis.yml", ".yamllint",
     "index.yaml", "index-v4.yaml", "README"}

\* a diff of one file: its path and the documents of the two blobs
Diff(b_path, a_dict, b_dict) == [b_path |-> b_path, a |-> a_dict, b |-> b_dict]

\* classify_modification(diff): the sequences of items it can yield.  The
\* paths are those of lines 187-191, of a release.yaml or distribution.yaml
\* in a folder (lines 268-350) and of the unknown case (line 360); paths
\* under rosdep/, *-build.yaml, doc.yaml, source.yaml and releases/ do not
\* occur in the histories below.
classify_modification(diff) ==
    LET name == diff.b_path[Len(diff.b_path)]
    IN  IF diff.b_path[1] \in MiscParts
          THEN {<<Triple("update", "misc", NULL)>>}
        ELSE IF name \in {"release.yaml", "distribution.yaml"}
          THEN {ManifestYields(diff_parts, diff.b_path[Len(diff.b_path) - 1], <<>>, 0) :
                   diff_parts \in yaml_diff_iterator(diff.a, diff.b, <<>>)}
        ELSE {<<NoneItem>>}


----------------------------------------------------------------------------
(* A walk over five commits that edit one distribution's manifest           *)

\* {'release': {'url': ..., 'version': version}}
ReleaseEntry(version) ==
    Dict("release" :> Dict(("url" :> Str(<<R_a>>)) @@ ("version" :> version)))

\* the same with a source section
SourceEntry(version) ==
    Dict(("release" :> Dict(("url" :> Str(<<R_a>>)) @@ ("version" :> version)))
         @@ ("source" :> Dict(("url" :> Str(<<U_a>>))
                              @@ ("version" :> Str(<<"master">>)))))

EmptyEntry == Dict(<<>>)

\* entry with its release version replaced
WithVersion(entry, version) ==
    IF entry = EmptyEntry THEN ReleaseEntry(version)
    ELSE Dict([entry.d EXCEPT !["release"] =
                  Dict([@.d EXCEPT !["version"] = version])])

Manifest(repos) ==
    Dict(("repositories" :> Dict(repos)) @@ ("type" :> Str(<<"distribution">>))
         @@ ("version" :> NumVal))

\* pairs of version texts that differ in the patch component only
PatchBumps ==
    {pair \in {<<VersionText(<<>>, <<<<"1">>, <<"2">>, p1>>, build, <<>>),
                 VersionText(<<>>, <<<<"1">>, <<"2">>, p2>>, build, <<>>)>> :
                  p1 \in {<<"3">>, <<"1", "0">>},
                  p2 \in {<<"3">>, <<"4">>, <<"1", "0">>},
                  build \in {<<>>, <<"0">>}} :
        pair[1] # pair[2]}

\* pairs that differ elsewhere: in the minor component, in the build number
OtherBumps ==
    {<<V_1_2_3_4, VersionText(<<>>, <<<<"1">>, <<"3">>, <<"0">>>>, <<"4">>, <<>>)>>,
     <<V_1_2_3_4, VersionText(<<>>, <<<<"1">>, <<"2">>, <<"3">>>>, <<"5">>, <<>>)>>}

\* a file of a commit, with what classify_modification yields for it
DiffFile(diff, yields) == [yields |-> yields, raises |-> "no", diff |-> diff]

FilesOf(diff) == {<<DiffFile(diff, y)>> : y \in classify_modification(diff)}

Readme == Diff(<<"README.md">>, Str(<<"a">>), Str(<<"b">>))

Unknown == Diff(<<"notes.txt">>, Str(<<"a">>), Str(<<"b">>))

E_B(version) == ReleaseEntry(Str(Render(version)))

\* the histories: commit 2 edits the readme or bumps another repository,
\* commit 3 adds pkgA, commit 4 edits the readme, an unknown file or the
\* other repository, commit 5 changes the release version of pkgA
\* the diffs of commits 2 to 5: b1, b2 and b4 are the entry of pkgB before
\* commit 2, after it and after commit 4; a3 and a5 are the entry of pkgA
\* after commits 3 and 5
ManifestDiffs(path, second, fourth, b1, b2, b4, a3, a5) ==
    <<IF second = "manifest"
        THEN Diff(path, Manifest("pkgB" :> b1), Manifest("pkgB" :> b2))
      ELSE Readme,
      Diff(path, Manifest("pkgB" :> b2),
                 Manifest(("pkgB" :> b2) @@ ("pkgA" :> a3))),
      IF fourth = "manifest"
        THEN Diff(path, Manifest(("pkgB" :> b2) @@ ("pkgA" :> a3)),
                        Manifest(("pkgB" :> b4) @@ ("pkgA" :> a3)))
      ELSE IF fourth = "readme" THEN Readme ELSE Unknown,
      Diff(path, Manifest(("pkgB" :> b4) @@ ("pkgA" :> a3)),
                 Manifest(("pkgB" :> b4) @@ ("pkgA" :> a5)))>>

\* the linear history whose commits 2 to 5 change the files of `files`
RECURSIVE LinearHistory(_, _)
LinearHistory(h, files) ==
    IF files = <<>> THEN h
    ELSE LinearHistory(Append(h, Child(HashNames[Len(h) + 1], h[Len(h)], DateBefore,
                                       Head(files), TreeEmpty)),
                       Tail(files))

\* one history for each choice of what the classification of each file
\* can yield
HistoriesOver(choices) ==
    {LinearHistory(<<RootCommit(TreeEmpty)>>, <<f2, f3, f4, f5>>) :
        f2 \in choices[1], f3 \in choices[2],
        f4 \in choices[3], f5 \in choices[4]}

HistoriesOfDiffs(diffs) == HistoriesOver([i \in 1..4 |-> FilesOf(diffs[i])])

ManifestEntry(section, version) ==
    IF section = "release" THEN ReleaseEntry(version)
    ELSE IF section = "source" THEN SourceEntry(version)
    ELSE EmptyEntry

ManifestHistoriesOf(distro, second, section, fourth, pair) ==
    HistoriesOfDiffs(
        ManifestDiffs(<<distro, "distribution.yaml">>, second, fourth,
            E_B(V_1_2_3),
            IF second = "manifest" THEN E_B(V_1_2_3_4) ELSE E_B(V_1_2_3),
            IF fourth = "manifest"
              THEN ReleaseEntry(Str(<<"2", ".", "0", ".", "0">>))
            ELSE IF second = "manifest" THEN E_B(V_1_2_3_4) ELSE E_B(V_1_2_3),
            ManifestEntry(section, Str(Render(pair[1]))),
            WithVersion(ManifestEntry(section, Str(Render(pair[1]))),
                        Str(Render(pair[2])))))

ManifestHistories ==
    UNION {ManifestHistoriesOf(distro, second, section, fourth, pair) :
              distro \in {"kinetic", "ardent"},
              second \in {"manifest", "readme"},
              section \in {"release", "source", "none"},
              fourth \in {"manifest", "readme", "unknown"},
              pair \in PatchBumps \cup OtherBumps}

InitManifest ==
    /\ commits \in ManifestHistories
    /\ net = NoNet
    /\ db = EmptyDB
    /\ w = Idle
    /\ walks = 0
    /\ prev = NoPrev

NextManifest ==
    \/ StartWalk(ClassifyOnly, commits)
    \/ Classify
    \/ SkipClassify
    \/ InsertChange
    \/ Sample
    \/ Finish

SpecManifest == InitManifest /\ [][NextManifest]_vars

\* the (verb, noun, detail) of the Change rows of a commit
TriplesOf(commit_id) ==
    {<<r.verb, r.noun, r.detail>> :
        r \in {x \in BagToSet(db.changes) : x.commit_id = commit_id}}

\* the repositories of a manifest
Repositories(doc) == doc.d["repositories"].d

\* the commit changes only the manifest of distro
EditsManifest(commit, distro) ==
    /\ Len(commit.files) = 1
    /\ commit.files[1].diff.b_path = <<distro, "distribution.yaml">>

\* the commit adds the non-empty entry `name` under repositories and
\* changes nothing else
AddsRepository(commit, distro, name) ==
    /\ EditsManifest(commit, distro)
    /\ LET diff == commit.files[1].diff
       IN  /\ name \notin DOMAIN Repositories(diff.a)
           /\ name \in DOMAIN Repositories(diff.b)
           /\ Repositories(diff.b)[name].t = "dict"
           /\ DOMAIN Repositories(diff.b)[name].d # {}
           /\ diff.b = Manifest(Repositories(diff.a)
                                @@ (name :> Repositories(diff.b)[name]))

\* the commit changes the release version of `name` in the patch
\* component only, and changes nothing else
BumpsPatch(commit, distro, name) ==
    /\ EditsManifest(commit, distro)
    /\ LET diff == commit.files[1].diff
       IN  /\ name \in DOMAIN Repositories(diff.a)
           /\ Repositories(diff.a)[name] # EmptyEntry
           /\ \E pair \in PatchBumps :
                 /\ Repositories(diff.a)[name].d["release"].d["version"]
                       = Str(Render(pair[1]))
                 /\ diff.b = Manifest([Repositories(diff.a) EXCEPT ![name] =
                                 WithVersion(@, Str(Render(pair[2])))])

\* C12: after a walk over a linear history of five commits in which commit
\* 3 adds a new non-empty repository entry to one distribution's manifest
\* and commit 5 changes that repository's release version in the patch
\* component only, the Change rows of commit 3's id are (add, package,
\* distro) and those of commit 5's id are (bump, patch, distro).
C12_AddThenPatchBump ==
    (w.pc = "idle" /\ prev.complete /\ Len(commits) = 5) =>
        \A distro \in {"kinetic", "ardent"} :
            (AddsRepository(commits[3], distro, "pkgA")
             /\ BumpsPatch(commits[5], distro, "pkgA")) =>
                /\ TriplesOf(2) = {<<"add", "package", distro>>}
                /\ TriplesOf(4) = {<<"bump", "patch", distro>>}

\* such a history has been walked and both rows are in the store
C12_Witness ==
    /\ w.pc = "idle" /\ prev.complete /\ Len(commits) = 5
    /\ AddsRepository(commits[3], "ardent", "pkgA")
    /\ BumpsPatch(commits[5], "ardent", "pkgA")
    /\ TriplesOf(2) = {<<"add", "package", "ardent">>}
    /\ TriplesOf(4) = {<<"bump", "patch", "ardent">>}


----------------------------------------------------------------------------
(* The repos store (repos.py): get_repo_list, clone, check_statuses and     *)
(* get_github_stats, each run to its end on the store that update_repos     *)
(* opens and closes (repos.py:303-320).  In this specification db is       *)
(* [repos, github_stats], net is the cache of clones [exists, xml] (the    *)
(* folders that exist, and those among them that hold a package.xml or     *)
(* manifest.xml), and w is [last, before, attempted, raised]: the          *)
(* operation that ran last, the repos table before it, the ids clone       *)
(* tried to clone, and whether the operation raised.                       *)

MaxRuns == 4

FORBIDDEN_KEYS == <<"-release", "ros.org", "svn", "code.google.com">>

\* `subs in url` on the URLs of the model
Contains(url, subs) ==
    \/ subs = "-release" /\ url \in {R_a, R_b}
    \/ subs = "ros2" /\ url = U_ros2_a

\* repos.py:61-70, with return_match = False; None and False are NULL
two_substring_match(urls, subs) ==
    IF Len(urls) # 2 THEN NULL
    ELSE IF Contains(urls[1], subs) /\ ~Contains(urls[2], subs) THEN urls[2]
    ELSE IF Contains(urls[2], subs) /\ ~Contains(urls[1], subs) THEN urls[1]
    ELSE NULL

\* the first key of keys for which two_substring_match gives a URL
\* (lines 88-92)
RECURSIVE FirstForbiddenMatch(_, _)
FirstForbiddenMatch(urls, keys) ==
    IF keys = <<>> THEN <<>>
    ELSE IF two_substring_match(urls, Head(keys)) # NULL
      THEN <<two_substring_match(urls, Head(keys))>>
    ELSE FirstForbiddenMatch(urls, Tail(keys))

\* lines 77-95: clean_urls for the list urls
CleanUrls(urls) ==
    IF Len(urls) = 1
      THEN IF \E i \in DOMAIN FORBIDDEN_KEYS : Contains(urls[1], FORBIDDEN_KEYS[i])
             THEN <<>> ELSE urls
    ELSE IF two_substring_match(urls, "ros2") # NULL THEN urls
    ELSE FirstForbiddenMatch(urls, FORBIDDEN_KEYS)

ReposCols == {"id", "server", "org", "repo", "key", "url", "status"}

\* lines 97-108 for one name: acc is [repos, running_count]
RECURSIVE InsertUrls(_, _, _)
InsertUrls(name, clean_urls, acc) ==
    IF clean_urls = <<>> THEN acc
    ELSE LET url == Head(clean_urls)
             d == match_git_host(url)
             known == \E r \in acc.repos : r.key = name /\ r.url = url
             row == [id |-> acc.running_count, server |-> d.server,
                     org |-> d.org, repo |-> d.repo, key |-> name,
                     url |-> url, status |-> NULL]
         IN  InsertUrls(name, Tail(clean_urls),
                        IF d.matched /\ ~known
                          THEN [repos |-> InsertKeyed(acc.repos, row),
                                running_count |-> acc.running_count + 1]
                          ELSE acc)

\* lines 76-108: all_repos is the sequence of the items of the dictionary,
\* each [name, urls] with urls the list(set(repo_dict.values()))
RECURSIVE RepoListLoop(_, _)
RepoListLoop(all_repos, acc) ==
    IF all_repos = <<>> THEN acc
    ELSE RepoListLoop(Tail(all_repos),
                      InsertUrls(Head(all_repos).name,
                                 CleanUrls(Head(all_repos).urls), acc))

\* lines 73-108
get_repo_list(repos, all_repos) ==
    RepoListLoop(all_repos,
                 [repos |-> repos, running_count |-> Cardinality(repos)]).repos


\* repo_utils.py:37-38
get_cache_folder(repo_dict) == <<repo_dict.org, repo_dict.repo>>

\* the folders of the model in the order of their paths
FolderOrder == <<<<"ros", "a">>, <<"ros-gbp", "a-release">>, <<"ros2", "a">>>>

\* the rows of a set in the order of their ids
RECURSIVE ById(_)
ById(rows) ==
    IF rows = {} THEN <<>>
    ELSE LET first == CHOOSE r \in rows : \A q \in rows : r.id <= q.id
         IN  <<first>> \o ById(rows \ {first})

\* the rows of a set, no two of one folder, in the order of their folders
RECURSIVE ByFolder(_)
ByFolder(rows) ==
    IF rows = {} THEN <<>>
    ELSE LET rank(r) == CHOOSE i \in DOMAIN FolderOrder :
                            FolderOrder[i] = get_cache_folder(r)
             first == CHOOSE r \in rows : \A q \in rows : rank(r) <= rank(q)
         IN  <<first>> \o ByFolder(rows \ {first})

\* the status of row id becomes status: MetricDB.update with the row's
\* own columns and the new status, keyed by id
SetStatus(repos, id, status) ==
    Update(repos, ReposCols, [id |-> id, status |-> status], "id")

\* fault: the rows that have a status are tried again
ConsiderAll(repos) == repos

\* repos.py:115-117: the rows clone does not skip
ToConsider(repos) == {r \in repos : r.status = NULL}

\* lines 127-134: to_clone is in the order of sorted(); outcome[id] is what
\* clone_or_update does for the row: "ok", the message of a CloneException
\* or "exit" (repo_utils.py:60-76).  acc is [repos, exists, attempted].
RECURSIVE CloneLoop(_, _, _)
CloneLoop(to_clone, outcome, acc) ==
    IF to_clone = <<>> THEN acc
    ELSE LET repo_dict == Head(to_clone)
             folder == get_cache_folder(repo_dict)
             tried == [acc EXCEPT !.attempted = @ \cup {repo_dict.id}]
         IN  IF folder \in acc.exists \/ outcome[repo_dict.id] = "ok"
               THEN CloneLoop(Tail(to_clone), outcome,
                              [tried EXCEPT !.exists = @ \cup {folder}])
             ELSE IF outcome[repo_dict.id] = "exit" THEN tried
             ELSE CloneLoop(Tail(to_clone), outcome,
                            [tried EXCEPT !.repos =
                                SetStatus(@, repo_dict.id, outcome[repo_dict.id])])

\* lines 111-135: [repos, exists, attempted, raised].  sorted() compares
\* the dictionaries of two entries of one folder, which raises TypeError.
clone(repos, exists, outcome) ==
    LET to_clone == {r \in ToConsider(repos) : get_cache_folder(r) \notin exists}
        start == [repos |-> repos, exists |-> exists, attempted |-> {},
                  raised |-> FALSE]
    IN  IF \E r \in to_clone : \E q \in to_clone :
               r # q /\ get_cache_folder(r) = get_cache_folder(q)
          THEN [start EXCEPT !.raised = TRUE]
        ELSE CloneLoop(ByFolder(to_clone), outcome, start)


\* repos.py:146-164 on the rows the query of line 147 returned.  After the
\* loop of lines 153-156 repo_dict is the last row marked dupe, and lines
\* 159-164 go on with it.
RECURSIVE CheckLoop(_, _, _)
CheckLoop(rows, repos, xml) ==
    IF rows = <<>> THEN repos
    ELSE LET row == Head(rows)
             matches == {r.id : r \in {q \in repos : q.url = row.url
                                                      /\ q.status = NULL}}
             dupes == IF Cardinality(matches) > 1 /\ Min(matches) = row.id
                        THEN matches \ {row.id} ELSE {}
             marked == {IF r.id \in dupes THEN [r EXCEPT !.status = "dupe"] ELSE r :
                           r \in repos}
             last_id == IF dupes = {} THEN row.id
                        ELSE CHOOSE i \in dupes : \A j \in dupes : j <= i
             repo_dict == CHOOSE r \in marked : r.id = last_id
         IN  CheckLoop(Tail(rows),
                       IF get_cache_folder(repo_dict) \in xml THEN marked
                       ELSE SetStatus(marked, last_id, "not_ros"),
                       xml)

check_statuses(repos, xml) ==
    CheckLoop(ById({r \in repos : r.status = NULL}), repos, xml)

\* repos.py:167-174
get_github_repos(repos) ==
    {r \in repos : r.server = "github.com" /\ r.status = NULL}

\* lines 192-214: answer[id] is what the request of line 194 gives: "404",
\* another error ("raise") or the repository ("ok"); acc is [repos,
\* github_stats, raised]
RECURSIVE CrawlLoop(_, _, _)
CrawlLoop(to_crawl, answer, acc) ==
    IF to_crawl = <<>> THEN acc
    ELSE LET id == Head(to_crawl).id
         IN  IF answer[id] = "404"
               THEN CrawlLoop(Tail(to_crawl), answer,
                              [acc EXCEPT !.repos = SetStatus(@, id, "missing")])
             ELSE IF answer[id] = "raise" THEN [acc EXCEPT !.raised = TRUE]
             ELSE CrawlLoop(Tail(to_crawl), answer,
                            [acc EXCEPT !.github_stats = @ \cup {id}])

\* lines 177-214: stale is the set of the ids whose row of github_stats is
\* older than limit
get_github_stats(repos, github_stats, stale, answer) ==
    CrawlLoop(ById({r \in get_github_repos(repos) :
                       r.id \notin github_stats \/ r.id \in stale}),
              answer,
              [repos |-> repos, github_stats |-> github_stats, raised |-> FALSE])


RepoNames == {"a", "b"}

RepoUrls == {U_a, U_a_dotgit, U_ros2_a, R_a, U_x}

\* list(set(repo_dict.values())): one or two URLs in either order
UrlLists ==
    {<<u>> : u \in RepoUrls}
    \cup {p \in {U_ros2_a, R_a} \X {U_a, U_ros2_a, R_a} : p[1] # p[2]}

Items == [name : RepoNames, urls : UrlLists]

\* what get_raw_distro_dict returns (lines 17-58), as the list of its items
AllRepos ==
    {<<x>> : x \in {i \in Items : i.name = "a" \/ i.urls = <<U_a_dotgit>>}}
    \cup {<<[name |-> "a", urls |-> <<U_a>>], [name |-> "b", urls |-> <<u>>]>> :
             u \in {U_a, U_a_dotgit}}

Folders == Range(FolderOrder)

NoRun == [last |-> "none", attempted |-> {}, raised |-> FALSE]

Ran(name) == [NoRun EXCEPT !.last = name]

InitRepos ==
    /\ commits = <<RootCommit(TreeEmpty)>>
    /\ net = [exists |-> {}, xml |-> {}]
    /\ db = [repos |-> {}, github_stats |-> {}]
    /\ w = NoRun
    /\ walks = 0
    /\ prev = NoPrev

\* get_repo_list(db) (repos.py:306)
GetRepoList ==
    /\ walks < MaxRuns
    /\ walks' = walks + 1
    /\ \E all_repos \in AllRepos :
          db' = [db EXCEPT !.repos = get_repo_list(@, all_repos)]
    /\ w' = Ran("get_repo_list")
    /\ UNCHANGED <<commits, net, prev>>

\* clone(db) (repos.py:308); a clone that succeeds may or may not hold a
\* package.xml or manifest.xml
Clone ==
    /\ walks < MaxRuns
    /\ walks' = walks + 1
    /\ \E outcome \in [{r.id : r \in ToConsider(db.repos)} ->
                          {"ok", "missing", "exit"}] :
          LET done == clone(db.repos, net.exists, outcome)
          IN  /\ db' = [db EXCEPT !.repos = done.repos]
              /\ \E xml \in SUBSET (done.exists \ net.exists) :
                    net' = [exists |-> done.exists, xml |-> net.xml \cup xml]
              /\ w' = [last |-> "clone", attempted |-> done.attempted,
                       raised |-> done.raised]
    /\ UNCHANGED <<commits, prev>>

\* check_statuses(db) (repos.py:310)
CheckStatuses ==
    /\ walks < MaxRuns
    /\ walks' = walks + 1
    /\ db' = [db EXCEPT !.repos = check_statuses(@, net.xml)]
    /\ w' = Ran("check_statuses")
    /\ UNCHANGED <<commits, net, prev>>

\* get_github_stats(db) (repos.py:313)
GetGithubStats ==
    /\ walks < MaxRuns
    /\ walks' = walks + 1
    /\ \E stale \in SUBSET db.github_stats :
       \E answer \in [{r.id : r \in get_github_repos(db.repos)} ->
                         {"ok", "404", "raise"}] :
          LET done == get_github_stats(db.repos, db.github_stats, stale, answer)
          IN  /\ db' = [repos |-> done.repos, github_stats |-> done.github_stats]
              /\ w' = [Ran("get_github_stats") EXCEPT !.raised = done.raised]
    /\ UNCHANGED <<commits, net, prev>>

NextRepos ==
    \/ GetRepoList
    \/ Clone
    \/ CheckStatuses
    \/ GetGithubStats

SpecRepos == InitRepos /\ [][NextRepos]_vars


SameRepository(r, q) == r.server = q.server /\ r.org = q.org /\ r.repo = q.repo

\* C21: after get_repo_list followed by check_statuses on the repos store,
\* no two Repo rows with status = null share the same (server, org, repo).
C21_ActiveReposUnique ==
    w.last = "check_statuses" =>
        \A r \in db.repos : \A q \in db.repos :
            (r.status = NULL /\ q.status = NULL /\ SameRepository(r, q)) => r = q

\* C22: a Repo row's status that is not null is left as it is by every
\* later run of clone, check_statuses and get_github_stats, and clone does
\* not try to clone that repository.
C22_StatusOneWay ==
    [][\A r \in db.repos :
          r.status # NULL =>
              /\ \E q \in db'.repos : q.id = r.id /\ q.status = r.status
              /\ w'.last = "clone" => r.id \notin w'.attempted]_vars

\* a row had a status, its folder was not in the cache and clone ran again
C22_Witness ==
    /\ w.last = "clone"
    /\ w.attempted # {}
    /\ \E r \in db.repos :
          /\ r.status \in {"missing", "dupe", "not_ros"}
          /\ r.id \notin w.attempted
          /\ get_cache_folder(r) \notin net.exists


----------------------------------------------------------------------------
(* classify_modification on one changed file (rosdistro.py:183-360).  In    *)
(* this specification w is [pc, diff, yields]: the diff the function is     *)
(* called on and, once it has returned, the items it yielded.               *)

Num(n) == [t |-> "num", n |-> n]

\* a repository entry of the legacy format: {'url': url, 'version': version}
LegacyEntry(url, version) ==
    Dict(("url" :> Str(<<url>>)) @@ ("version" :> version))

\* {'release': {'url': url, 'version': version, 'tags': {'release': ...}}}
TaggedEntry(url, version) ==
    Dict("release" :> Dict(("url" :> Str(<<url>>)) @@ ("version" :> version)
                           @@ ("tags" :> Dict("release" :> Str(<<"t">>)))))

ManifestEntries ==
    {ReleaseEntry(Str(Render(V_1_2_3))), ReleaseEntry(Str(Render(V_1_2_3_4))),
     SourceEntry(Str(Render(V_1_2_3))), TaggedEntry(R_a, Str(Render(V_1_2_3))),
     LegacyEntry(R_a, Str(Render(V_1_2_3))), LegacyEntry(R_b, Str(Render(V_1_2_3)))}

\* the document of a manifest: repositories and a format version
ManifestDoc(repos, version) ==
    Dict(("repositories" :> Dict(repos)) @@ ("version" :> Num(version)))

ManifestDocs ==
    {ManifestDoc(<<>>, version) : version \in {1, 2}}
    \cup {ManifestDoc("pkgA" :> entry, version) :
             entry \in ManifestEntries, version \in {1, 2}}

\* lines 150-151: the document of a blob; a side of the diff without a
\* blob is read as the empty text (repo_utils.py:112-113), which loads as
\* None
BlobDocs == ManifestDocs \cup {NoneVal}

ManifestPaths == {<<"kinetic", "distribution.yaml">>, <<"ardent", "release.yaml">>}

ClassifyDiffs ==
    {Diff(b_path, a_dict, b_dict) :
        b_path \in ManifestPaths, a_dict \in BlobDocs, b_dict \in ManifestDocs}
    \cup {Readme, Unknown}

InitClassify ==
    /\ commits = <<RootCommit(TreeEmpty)>>
    /\ net = NoNet
    /\ db = EmptyDB
    /\ w \in {[pc |-> "call", diff |-> diff, yields |-> <<>>] : diff \in ClassifyDiffs}
    /\ walks = 0
    /\ prev = NoPrev

\* list(classify_modification(diff))
ClassifyModification ==
    /\ w.pc = "call"
    /\ \E yields \in classify_modification(w.diff) :
          w' = [w EXCEPT !.pc = "return", !.yields = yields]
    /\ UNCHANGED <<commits, net, db, walks, prev>>

NextClassify == ClassifyModification

SpecClassify == InitClassify /\ [][NextClassify]_vars

\* the function has returned for a main per-distribution manifest
ClassifiedManifest ==
    /\ w.pc = "return"
    /\ w.diff.b_path \in ManifestPaths

Channel == w.diff.b_path[1]

\* C23: when the manifest did not exist in the parent, so that the
\* structural diff is the whole document at the empty path with verb add,
\* classify_modification emits (add, rosdistro, channel) for the file.
C23_ChannelCreation ==
    (ClassifiedManifest /\ w.diff.a = NoneVal /\ Truthy(w.diff.b)) =>
        w.yields = <<Triple("add", "rosdistro", Channel)>>

\* the items of the matched path patterns, one for each changed leaf
PatternItems(diff_parts) ==
    [i \in DOMAIN diff_parts |->
        ManifestItem(diff_parts[i].left, diff_parts[i].right,
                     diff_parts[i].path, Channel).item]

\* C24: for a main per-distribution manifest the synthesized (update,
\* release, channel) is emitted only when the structural diff is empty;
\* when the diff has a changed leaf, the items emitted are exactly those of
\* the matched path patterns, one for each changed leaf.
C24_SynthesizedOnlyWhenEmpty ==
    ClassifiedManifest =>
        IF w.diff.a = w.diff.b
        THEN w.yields = <<Triple("update", "release", Channel)>>
        ELSE \E diff_parts \in yaml_diff_iterator(w.diff.a, w.diff.b, <<>>) :
                w.yields = PatternItems(diff_parts)


----------------------------------------------------------------------------
(* resolve_source_url called on its own (rosdistro.py:477-492).  In this    *)
(* specification db is the rosdistro store, net does not change and w is    *)
(* [calls]: for each call made so far the entry, the distro and what the    *)
(* call returned.                                                           *)

MaxLookups == 3

E_r2 == Entry("b", NULL, R_b, Version("1.0.0", "0"), NULL)

LookupEntries == {E_r, E_r2, E_a}

LookupNets == [{R_a, R_b} -> {"timeout", "notracks", "error", U_a}]

InitLookup ==
    /\ commits = <<RootCommit(TreeEmpty)>>
    /\ net \in LookupNets
    /\ db = EmptyDB
    /\ w = [calls |-> <<>>]
    /\ walks = 0
    /\ prev = NoPrev

\* url = resolve_source_url(db, entry, distro) (line 499)
ResolveSourceUrl ==
    /\ Len(w.calls) < MaxLookups
    /\ \E entry \in LookupEntries, distro \in {"kinetic", "ardent"} :
          LET rs == resolve_source_url(db.release_url_map, net, entry, distro)
          IN  /\ db' = [db EXCEPT !.release_url_map = rs.map]
              /\ w' = [calls |-> Append(w.calls,
                          [entry |-> entry, distro |-> distro, url |-> rs.url,
                           asked |-> rs.asked, raised |-> rs.raised])]
    /\ UNCHANGED <<commits, net, walks, prev>>

NextLookup == ResolveSourceUrl

SpecLookup == InitLookup /\ [][NextLookup]_vars

\* the tracks descriptor of the release repository names a source URL
TracksGiveUrl(release_url) ==
    net[release_url] \notin {"timeout", "notracks", "error"}

\* C25: for an entry without a source or doc URL whose release repository's
\* tracks descriptor names a source URL, every call of resolve_source_url
\* returns that URL: the first call, which goes to the network, and every
\* later call for the same (release_url, distro), which reads the stored
\* value.
C25_SameOnFirstAndLaterCalls ==
    \A i \in DOMAIN w.calls :
        LET call == w.calls[i]
        IN  (call.entry.source_url = NULL /\ TracksGiveUrl(call.entry.release_url))
                => call.url = net[call.entry.release_url]


----------------------------------------------------------------------------
(* Claims on check_tags, over SpecTags                                      *)

ValueOf(r) == [tag |-> r.tag, is_release |-> r.is_release]

\* check_tags is at (repo_id, distro) with a value that differs from the
\* latest row dated <= timestamp, if there is one, and equals the one
\* earliest row dated > timestamp
MergeCase ==
    /\ w.pc = "tags_repo"
    /\ LET repo_id == Min(w.ids)
           cur == CurrentValue(w.entry, repo_id)
       IN  /\ \A r \in LatestRows(db.tags, Head(w.todo), w.timestamp, repo_id) :
                 ValueOf(r) # cur
           /\ \E a_d \in db.tags :
                 /\ AfterRows(db.tags, Head(w.todo), w.timestamp, repo_id) = {a_d}
                 /\ ValueOf(a_d) = cur

\* the one earliest later row of the merge case
LaterRow ==
    CHOOSE a_d \in db.tags :
        AfterRows(db.tags, Head(w.todo), w.timestamp, Min(w.ids)) = {a_d}

\* C26: when a checkpoint at timestamp t finds for (repo_id, distro) a
\* value that differs from the latest Tag row dated <= t but equals the
\* earliest Tag row dated > t, check_tags sets that row's date to t, leaves
\* its other columns and every other row as they are and inserts no row.
C26_MergedIntoLaterRow ==
    [][MergeCase =>
          db'.tags = (db.tags \ {LaterRow})
                        \cup {[LaterRow EXCEPT !.date = w.timestamp]}]_vars

\* check_tags is at such a pair, which has an earlier row of another value
C26_Witness ==
    /\ MergeCase
    /\ LatestRows(db.tags, Head(w.todo), w.timestamp, Min(w.ids)) # {}


----------------------------------------------------------------------------
(* check_tags on snapshots that hold entries load_repository_info cannot    *)
(* resolve (rosdistro.py:495-529, 545-560)                                  *)

\* repository a with a source URL that no host pattern matches (line 504)
E_x == Entry("a", U_x, NULL, NoVersion, "master")

\* repository a with neither a release version nor a source version, on a
\* URL that carries no branch (lines 508, 526)
E_nv == Entry("a", U_a, NULL, NoVersion, NULL)

UnresolvedTrees ==
    {[TreeEmpty EXCEPT !["kinetic"] = Folder(<<e>>)] : e \in {E_a, E_x, E_nv, E_r}}

InitUnresolved ==
    /\ commits = <<RootCommit(TreeEmpty)>>
    /\ net = NoNet
    /\ db = EmptyDB
    /\ w = Idle
    /\ walks = 0
    /\ prev = NoPrev

NextUnresolved ==
    \/ \E tree \in UnresolvedTrees, timestamp \in Timestamps :
           CallCheckTags(walks * TagStride, tree, timestamp)
    \/ TagsDistroStep
    \/ TagsRepoStep
    \/ TagsDoneStep

SpecUnresolved == InitUnresolved /\ [][NextUnresolved]_vars

\* the URL load_repository_info works with for the entry, once the release
\* URL has been looked up (lines 499-500)
SourceUrlOf(entry, distro) ==
    resolve_source_url(db.release_url_map, net, entry, distro).url

UrlUnresolved(entry, distro) ==
    \/ SourceUrlOf(entry, distro) = NULL
    \/ ~match_git_host(SourceUrlOf(entry, distro)).matched

VersionUnresolved(entry, distro) ==
    /\ ~UrlUnresolved(entry, distro)
    /\ EntryInfo(entry, SourceUrlOf(entry, distro)).version = NULL

\* the repo ids the entry can stand for: those of its repos row, or any
\* where its URL names none
IdsOfEntry(entry, distro) ==
    IF UrlUnresolved(entry, distro) THEN {r.repo_id : r \in db.tags} \cup {0}
    ELSE {r.id : r \in RepoRows(db.repos, match_git_host(SourceUrlOf(entry, distro)))}

\* the Tag rows of every distro of the snapshot are written
AllDistrosDone == w.pc = "tags_distro" /\ w.todo = <<>>

ResolvedIds(distro) ==
    UNION {IdsOfEntry(w.repositories.dict[distro][i], distro) :
             i \in {j \in DOMAIN w.repositories.dict[distro] :
                      ~UrlUnresolved(w.repositories.dict[distro][j], distro)}}

\* a row of (repo_id, distro) at the checkpoint timestamp holds the value
RecordedAt(tags, repo_id, distro, value) ==
    \E r \in tags : /\ r.repo_id = repo_id /\ r.distro = distro
                    /\ r.date = w.timestamp /\ ValueOf(r) = value

----------------------------------------------------------------------------
(* Walks that only classify, over commits whose diff holds files that do    *)
(* not parse (rosdistro.py:397-420, 597-608)                                *)

\* yaml_diff loads both sides before it yields (rosdistro.py:275), so a
\* file that does not parse yields nothing
FileKinds ==
    {File(<<>>, "yaml"), File(<<T1>>, "no"), File(<<T1, T2>>, "no"),
     File(<<T2, NoneItem>>, "no"), File(<<T2>>, "other")}

MaxFiles == 3

ParseDiffs == UNION {[1..n -> FileKinds] : n \in 1..MaxFiles}

ParseHistories ==
    {<<M_root, Commit("c1", Bob, DateIn, <<M_root>>, files)>> : files \in ParseDiffs}

InitParse ==
    /\ commits \in ParseHistories
    /\ net = NoNet
    /\ db = EmptyDB
    /\ w = Idle
    /\ walks = 0
    /\ prev = NoPrev

NextParse ==
    \/ StartWalk(ClassifyOnly, commits)
    \/ Classify
    \/ SkipClassify
    \/ InsertChange
    \/ Sample
    \/ Finish
    \/ KeyboardInterrupt

SpecParse == InitParse /\ [][NextParse]_vars

\* the files of the diff that do not parse
YamlErrors(files) == {k \in DOMAIN files : files[k].raises = "yaml"}

\* the entries with noun error
ErrorEntries(entries) == {k \in DOMAIN entries : entries[k].noun = "error"}

\* the triple is among the entries
Collected(entries, ret) ==
    \E k \in DOMAIN entries : /\ entries[k].verb = ret.verb
                              /\ entries[k].noun = ret.noun
                              /\ entries[k].detail = ret.detail

\* C28: when files of a single-parent commit's diff raise a YAML parse
\* error and nothing else goes wrong, classify_commit returns a list that
\* holds exactly one entry with noun error per such file and the triples
\* of every other file, and the walk that classified the commit has
\* inserted exactly these entries as its Change rows.
C28_ParseErrorKeepsCommit ==
    \A i \in Ids :
        LET files == commits[i + 1].files
            c == Classification(i)
        IN  (/\ Len(commits[i + 1].parents) = 1
             /\ YamlErrors(files) # {}
             /\ FullyClassifiable(files))
              => /\ c.valid
                 /\ Cardinality(ErrorEntries(c.entries))
                       = Cardinality(YamlErrors(files))
                 /\ \A k \in DOMAIN files :
                       \A ret \in Range(files[k].yields) :
                          Collected(c.entries, ret)
                 /\ ClassifiedNow(i)
                       => RowsOf(db.changes, i) = SetToBag(Range(c.entries))

\* the walk is past the inserts of a commit of three files, the second of
\* which does not parse: an error row stands between the rows of the others
C28_Witness ==
    /\ Len(commits) = 2
    /\ commits[2].files
          = <<File(<<T1>>, "no"), File(<<>>, "yaml"), File(<<T1, T2>>, "no")>>
    /\ ClassifiedNow(1)
    /\ \E r \in BagToSet(db.changes) : r.noun = "error" /\ r.change_index = 1
    /\ \E r \in BagToSet(db.changes) : r.verb = T2.verb /\ r.change_index = 2


----------------------------------------------------------------------------
(* resolve (repo_utils.py:90-101) against servers that answer a URL with a  *)
(* 301 and a Location, with another response, with a connect timeout or    *)
(* with another failure                                                     *)

MaxHops == 3

RedirectUrls == {<<Https, "ros/a">>, <<Https, "ros/a", ".git">>, <<Https, "ros/b">>}

\* what the server of each URL does: a Location stands for a 301
Servers == [RedirectUrls -> {<<"ok">>, <<"timeout">>, <<"error">>} \cup RedirectUrls]

InitRedirect ==
    /\ commits = <<RootCommit(TreeEmpty)>>
    /\ net = NoNet
    /\ db = EmptyDB
    /\ w \in {[pc |-> "call", caller |-> "resolve", given |-> u, url |-> u,
               original |-> u, servers |-> s, hops |-> 0, odd |-> FALSE,
               result |-> <<>>] :
                 u \in RedirectUrls \cup {<<GitSsh, "ros/a">>}, s \in Servers}
    /\ walks = 0
    /\ prev = NoPrev

\* lines 92-96: one turn of `while True`; hops counts the 301 responses
\* followed and stops counting at MaxHops, odd is the parity of the
\* number of requests sent
RedirectRequest ==
    /\ w.pc = "request"
    /\ LET r == w.servers[w.url]
       IN  w' = IF r = <<"timeout">> THEN [w EXCEPT !.pc = "raise"]
                ELSE IF r = <<"error">>
                  THEN [w EXCEPT !.pc = "return", !.result = <<>>]
                ELSE IF r = <<"ok">> THEN [w EXCEPT !.pc = "suffix"]
                ELSE [w EXCEPT !.url = r, !.odd = ~@,
                               !.hops = IF @ < MaxHops THEN @ + 1 ELSE @]
    /\ UNCHANGED <<commits, net, db, walks, prev>>

NextRedirect == ResolveCall \/ RedirectRequest \/ ResolveReturn

SpecRedirect == InitRedirect /\ [][NextRedirect]_vars

\* the interpreter runs the next statement, and every request ends: it is
\* answered or it times out after 3 seconds (line 93)
SpecRedirectFair == SpecRedirect /\ WF_vars(NextRedirect)

\* C29: resolve(url) terminates whatever the remote servers do, a cycle of
\* 301 responses included: it returns or raises.
C29_ResolveTerminates == <>(w.pc \in {"return", "raise"})


----------------------------------------------------------------------------
(* Tag checks that are cancelled and made again (rosdistro.py:532-577,      *)
(* 594-642).  commits holds the commits whose id is a multiple of 1000;     *)
(* prev.cancelled holds the ids of the commits whose check was cancelled.   *)

RecheckTrees ==
    {[TreeEmpty EXCEPT !["kinetic"] = Folder(<<e>>)] : e \in {E_a, E_a2, E_r}}
    \cup {[TreeEmpty EXCEPT !["kinetic"] = Folder(<<E_r>>),
                            !["ardent"] = Folder(<<E_a>>)]}

\* the first commit and one later commit; the later one is authored later
Checkpoints ==
    {<<RootCommit(t0), Child("c1", RootCommit(t0), DateIn, <<>>, t1)>> :
        t0 \in RecheckTrees, t1 \in RecheckTrees}

\* the release repository of E_r answers with its source URL, or times out
RecheckNets == {[NoNet EXCEPT ![R_a] = o] : o \in {"timeout", U_a}}

InitRecheck ==
    /\ commits \in Checkpoints
    /\ net \in RecheckNets
    /\ db = EmptyDB
    /\ w = Idle
    /\ walks = 0
    /\ prev = [cancelled |-> {}]

\* the positions of the commits a walk would tag-check (lines 594, 611)
Untagged(dbx) ==
    {k \in 0..(Len(commits) - 1) : k * TagStride \notin AlreadyTagged(dbx)}

\* lines 594-633 for a walk that only checks tags: the walk reaches the
\* first commit that is not in tags_checked and calls check_tags on it
CheckNextCommit ==
    /\ w.pc = "idle"
    /\ walks < MaxChecks
    /\ Untagged(db) # {}
    /\ LET k == Min(Untagged(db))
       IN  w' = EnterTags([Idle EXCEPT !.caller = "check_tags"], db.tags,
                          k * TagStride, commit_to_rosdistro(commits[k + 1].tree),
                          commits[k + 1].authored_date)
    /\ walks' = walks + 1
    /\ UNCHANGED <<commits, net, db, prev>>

\* lines 635-642: KeyboardInterrupt inside check_tags; the finally clause
\* closes the store with the rows written so far
CancelCheck ==
    /\ w.pc \in {"tags_distro", "tags_repo"}
    /\ w' = Idle
    /\ prev' = [cancelled |-> prev.cancelled \cup {w.commit_id}]
    /\ UNCHANGED <<commits, net, db, walks>>

NextRecheck ==
    \/ CheckNextCommit
    \/ CancelCheck
    \/ TagsDistroStep
    \/ TagsRepoStep
    \/ TagsDoneStep

SpecRecheck == InitRecheck /\ [][NextRecheck]_vars

SameTagKey(r, q) ==
    r.repo_id = q.repo_id /\ r.distro = q.distro /\ r.date = q.date

\* the step inserts a commit id into tags_checked
TagsCheckedGrows == db'.tags_checked # db.tags_checked

\* C30: a commit id is inserted into tags_checked only when the Tag rows of
\* every distro of its snapshot are written; and when a commit whose tag
\* check was cancelled is tag-checked again, no step of the second check
\* leaves a row that shares (repo_id, distro, date) with another row.
C30_RecheckAddsNoSecondRow ==
    [][/\ TagsCheckedGrows
          => /\ w.pc = "tags_distro" /\ w.todo = <<>>
             /\ db'.tags = db.tags
             /\ db'.tags_checked = Insert(db.tags_checked, [commit_id |-> w.commit_id])
       /\ (w.pc = "tags_repo" /\ w.commit_id \in prev.cancelled)
          => \A r \in db'.tags \ db.tags :
                \A q \in db'.tags : SameTagKey(r, q) => q = r
    ]_vars

====
